---- MODULE Spec2Model ----
(***************************************************************************)
(* Model of the zdash cache/sync manager (src/data_management.py) and of   *)
(* the record fetcher it calls (src/odoo.py).                              *)
(*                                                                         *)
(* Time is counted in whole hours.  A cell of a DataFrame is a record      *)
(* [k, a, b]: k = "nan" (NaN/None/NaT), "val" (a scalar whose text is a),  *)
(* "ts" (a pandas Timestamp), "list" (the two-element list [a, b]) or      *)
(* "str" (the text str([a, b]) of such a list).  A DataFrame is            *)
(* [cols, rows]: its column set and its rows, each row a function on cols. *)
(***************************************************************************)
EXTENDS Integers, Sequences, FiniteSets, TLC

VARIABLES dataFile, lastUpdateFile, clock, last, prev, as_of_seen, shown,
          old_data, new_data, merged_data, mpc,
          calc_in, calc_out, cpc, rev_in, rev_out, rpc,
          financialsFile, lastCalcFile, fin,
          jobCostsFile, dm_job_costs, table_data, employees_table, jop, dm

vars == <<dataFile, lastUpdateFile, clock, last, prev, as_of_seen, shown,
          old_data, new_data, merged_data, mpc,
          calc_in, calc_out, cpc, rev_in, rev_out, rpc,
          financialsFile, lastCalcFile, fin,
          jobCostsFile, dm_job_costs, table_data, employees_table, jop, dm>>

syncVars == <<dataFile, lastUpdateFile, clock, last, prev, as_of_seen, shown>>
mergeVars == <<old_data, new_data, merged_data, mpc>>
revVars == <<rev_in, rev_out, rpc>>
calcVars == <<calc_in, calc_out, cpc, revVars>>
finVars == <<financialsFile, lastCalcFile, fin>>
jobVars == <<jobCostsFile, dm_job_costs, table_data, employees_table, jop, dm>>

\* the parts of the program that a specification leaves at rest
RevIdle == rev_in = <<>> /\ rev_out = <<>> /\ rpc = "idle"
CalcIdle == calc_in = <<>> /\ calc_out = <<>> /\ cpc = "idle" /\ RevIdle
FinIdle ==
    /\ financialsFile = [st |-> "absent", content |-> <<>>]
    /\ lastCalcFile = [st |-> "absent", content |-> <<>>]
    /\ fin = [op |-> "none"]
JobIdle ==
    /\ jobCostsFile = [st |-> "absent", content |-> <<>>]
    /\ dm_job_costs = <<>> /\ dm = <<>>
    /\ table_data = <<>> /\ employees_table = <<>> /\ jop = "idle"
MergeIdle == old_data = <<>> /\ new_data = <<>> /\ merged_data = <<>> /\ mpc = "idle"

----------------------------------------------------------------------------
(* Bounds of the model *)

MaxTime == 25
MaxOldRows == 2
MaxNewRows == 2

----------------------------------------------------------------------------
(* Cells *)

NaN == [k |-> "nan", a |-> "", b |-> ""]
None == [k |-> "none", a |-> "", b |-> ""]
S(x) == [k |-> "val", a |-> x, b |-> ""]
L(x, y) == [k |-> "list", a |-> x, b |-> y]
Ts(x) == [k |-> "ts", a |-> x, b |-> ""]

IsNa(v) == v.k = "nan" \/ v.k = "none"

----------------------------------------------------------------------------
(* pandas DataFrame operations used by the code *)

EmptyFrame == [cols |-> {}, rows |-> <<>>]

RowKeys(records) == UNION {DOMAIN records[i] : i \in 1..Len(records)}

\* pd.DataFrame(list of dicts): the columns are the union of the keys,
\* a key missing from a record reads NaN; None reads as NaN too.
DataFrame(records) ==
    LET C == RowKeys(records)
    IN [cols |-> C,
        rows |-> [i \in 1..Len(records) |->
                    [c \in C |-> IF c \in DOMAIN records[i] /\ ~IsNa(records[i][c])
                                 THEN records[i][c] ELSE NaN]]]

\* df.reindex(columns=C)
Reindex(df, C) ==
    [cols |-> C,
     rows |-> [i \in 1..Len(df.rows) |->
                 [c \in C |-> IF c \in df.cols THEN df.rows[i][c] ELSE NaN]]]

\* df.dropna(axis=1, how='all'): a column without a single non-null value
\* goes; in a frame without rows that is every column.
DropNaCols(df) ==
    LET keep == {c \in df.cols : \E i \in 1..Len(df.rows) : ~IsNa(df.rows[i][c])}
    IN Reindex(df, keep)

\* pd.concat([a, b], ignore_index=True)
Concat(a, b) ==
    LET U == a.cols \cup b.cols
    IN [cols |-> U, rows |-> Reindex(a, U).rows \o Reindex(b, U).rows]

RECURSIVE KeepRows(_, _, _)
KeepRows(rows, keep, i) ==
    IF i > Len(rows) THEN <<>>
    ELSE (IF i \in keep THEN <<rows[i]>> ELSE <<>>) \o KeepRows(rows, keep, i + 1)

\* df.drop_duplicates(subset=key, keep='last'); NaN keys count as equal
DropDuplicatesLast(df, key) ==
    LET n == Len(df.rows)
        keep == {i \in 1..n : ~\E j \in (i + 1)..n : df.rows[j][key] = df.rows[i][key]}
    IN [cols |-> df.cols, rows |-> KeepRows(df.rows, keep, 1)]

\* df.drop_duplicates(): whole-row equality, the first occurrence stays.
\* pandas returns a frame that is `empty` (no rows, or no columns) as it is,
\* so rows that are left without any column are not compared at all.
DropDuplicates(df) ==
    LET n == Len(df.rows)
        keep == {i \in 1..n : ~\E j \in 1..(i - 1) : df.rows[j] = df.rows[i]}
    IN IF df.cols = {} THEN df
       ELSE [cols |-> df.cols, rows |-> KeepRows(df.rows, keep, 1)]

----------------------------------------------------------------------------
(* DataManager.merge_new_data *)

StrOfList(x) == IF x.k = "list" THEN [k |-> "str", a |-> x.a, b |-> x.b] ELSE x

\* lines 108-111: every list cell becomes its text
NormalizeLists(df) ==
    [cols |-> df.cols,
     rows |-> [i \in 1..Len(df.rows) |-> [c \in df.cols |-> StrOfList(df.rows[i][c])]]]

\* drop_duplicates(subset='id') with the default keep='first'
MergeFrameKeepFirst(old_df, new_df) ==
    LET o1 == NormalizeLists(old_df)
        n1 == NormalizeLists(new_df)
        all_columns == o1.cols \cup n1.cols
        o2 == DropNaCols(Reindex(o1, all_columns))
        n2 == DropNaCols(Reindex(n1, all_columns))
        cat == Concat(o2, n2)
        firstOf == {i \in 1..Len(cat.rows) :
                      ~\E j \in 1..(i - 1) : cat.rows[j]["id"] = cat.rows[i]["id"]}
    IN IF "id" \in o2.cols /\ "id" \in n2.cols
       THEN [cols |-> cat.cols, rows |-> KeepRows(cat.rows, firstOf, 1)]
       ELSE DropDuplicates(cat)

\* lines 107-124, one pass of the loop
MergeFrame(old_df, new_df) ==
    LET o1 == NormalizeLists(old_df)
        n1 == NormalizeLists(new_df)
        all_columns == o1.cols \cup n1.cols
        o2 == DropNaCols(Reindex(o1, all_columns))
        n2 == DropNaCols(Reindex(n1, all_columns))
    IN IF "id" \in o2.cols /\ "id" \in n2.cols
       THEN DropDuplicatesLast(Concat(o2, n2), "id")
       ELSE DropDuplicates(Concat(o2, n2))

Min(x, y) == IF x < y THEN x ELSE y

\* zip(old_data, new_data) stops at the shorter list
merge_new_data(old, new) ==
    [i \in 1..Min(Len(old), Len(new)) |-> MergeFrame(old[i], new[i])]

----------------------------------------------------------------------------
(* serialize_dataframes / deserialize_dataframes, save/load of the files *)

\* df.to_dict(orient='records') if not df.empty else {}
SerializeFrame(df) == IF df.cols = {} \/ Len(df.rows) = 0 THEN <<>> ELSE df.rows

\* pd.DataFrame(df_data) if df_data else pd.DataFrame()
DeserializeFrame(d) == IF Len(d) = 0 THEN EmptyFrame ELSE DataFrame(d)

serialize_dataframes(data) == [i \in 1..Len(data) |-> SerializeFrame(data[i])]
deserialize_dataframes(data) == [i \in 1..Len(data) |-> DeserializeFrame(data[i])]

\* date.isoformat(): the time of day is lost
IsoformatDateOnly(t) == <<t \div 24, 0>>

\* datetime.isoformat() / datetime.fromisoformat(): date part and hour part
Isoformat(t) == <<t \div 24, t % 24>>
FromIsoformat(s) == s[1] * 24 + s[2]

\* A file is absent, holds a complete dump, or was truncated by a write
\* that failed after open(..., 'w').
AbsentFile == [st |-> "absent", content |-> <<>>]
CorruptFile == [st |-> "corrupt", content |-> <<>>]
FileOf(c) == [st |-> "ok", content |-> c]

----------------------------------------------------------------------------
(* The remote source: what search_read answers for each model.  Variant 2  *)
(* is the source after a project was renamed and a timesheet line added.   *)

Models == {"project.project", "hr.employee", "sale.order", "account.move",
           "account.analytic.line", "project.task"}

Variants == {1, 2}

DateStrings == {"2024-01-01", "2024-01-02"}

RemoteRecords(model, v) ==
    CASE model = "project.project" ->
           << [id |-> S("1"), name |-> S(IF v = 1 THEN "Alpha" ELSE "Alpha2"),
               partner_id |-> L("7", "Acme"), user_id |-> None,
               date_start |-> S("2024-01-01"), date |-> None, active |-> S("True")] >>
      [] model = "hr.employee" ->
           << [id |-> S("10"), name |-> S("Bob"), department_id |-> None,
               job_id |-> L("5", "Engineer")] >>
      [] model = "sale.order" ->
           << [id |-> S("30"), name |-> S("SO1"), partner_id |-> L("7", "Acme"),
               amount_total |-> S("100"), date_order |-> S("2024-01-01")] >>
      [] model = "account.move" ->
           << [id |-> S("40"), name |-> S("INV1"), move_type |-> S("out_invoice"),
               amount_total |-> S("100"), date |-> S("not a date")] >>
      [] model = "account.analytic.line" ->
           << [id |-> S("50"), employee_id |-> L("10", "Bob"), task_id |-> L("60", "T1"),
               project_id |-> L("1", "Alpha"), unit_amount |-> S("8"),
               date |-> S("2024-01-01")] >>
           \o (IF v = 1 THEN <<>>
               ELSE << [id |-> S("51"), employee_id |-> L("11", "Eve"), task_id |-> None,
                        project_id |-> L("1", "Alpha2"), unit_amount |-> S("4"),
                        date |-> S("2024-01-02")] >>)
      [] model = "project.task" ->
           << [id |-> S("60"), project_id |-> L("1", "Alpha"), stage_id |-> L("2", "Done"),
               name |-> S("T1"), create_date |-> S("2024-01-01"), date_end |-> None] >>

\* The sets of models whose remote call raises in one fetch
FailSets == {{}, {"hr.employee"}, Models}

----------------------------------------------------------------------------
(* src/odoo.py *)

\* line 23: keys whose value is None are removed from each record
CleanRecord(rec) == [f \in {g \in DOMAIN rec : rec[g] # None} |-> rec[f]]

\* fetch_odoo_data: an exception of the remote call is caught and [] returned
fetch_odoo_data(model, v, failed) ==
    IF model \in failed THEN <<>>
    ELSE [i \in 1..Len(RemoteRecords(model, v)) |-> CleanRecord(RemoteRecords(model, v)[i])]

\* validate_dataframe: a missing required column is added, holding None
validate_dataframe(df, required_columns) == Reindex(df, df.cols \cup required_columns)

extract_id(x) == IF x.k = "list" THEN S(x.a) ELSE x

\* pd.to_datetime(..., errors='coerce')
ToDatetime(x) ==
    IF x.k = "ts" THEN x
    ELSE IF x.k = "val" /\ x.a \in DateStrings THEN Ts(x.a) ELSE NaN

\* lines 51-56: the columns validate_dataframe is asked for
RequiredColumns(model) ==
    CASE model = "project.project" ->
           {"id", "name", "partner_id", "user_id", "date_start", "date", "active"}
      [] model = "hr.employee" -> {"id", "name", "department_id", "job_id"}
      [] model = "sale.order" -> {"name", "partner_id", "amount_total", "date_order"}
      [] model = "account.move" -> {"name", "move_type", "amount_total", "date"}
      [] model = "account.analytic.line" -> {"employee_id", "project_id", "unit_amount", "date"}
      [] model = "project.task" -> {"project_id", "stage_id", "create_date", "date_end"}

\* lines 59-65: date_columns (there is no entry for the employees)
DateColumns(model) ==
    CASE model = "project.project" -> {"date_start", "date"}
      [] model = "hr.employee" -> {}
      [] model = "sale.order" -> {"date_order"}
      [] model = "account.move" -> {"date"}
      [] model = "account.analytic.line" -> {"date"}
      [] model = "project.task" -> {"create_date", "date_end"}

\* lines 73-75: the columns extract_id is applied to
IdColumns(model) ==
    CASE model = "account.analytic.line" -> {"project_id", "employee_id"}
      [] model = "project.task" -> {"project_id"}
      [] OTHER -> {}

\* lines 67-75: df[col] = pd.to_datetime(df[col], errors='coerce') for the
\* date columns and df[col] = df[col].apply(extract_id) for the id columns
ConvertCols(df, dateCols, idCols) ==
    [cols |-> df.cols,
     rows |-> [i \in 1..Len(df.rows) |->
                 [c \in df.cols |->
                    IF c \in dateCols THEN ToDatetime(df.rows[i][c])
                    ELSE IF c \in idCols THEN extract_id(df.rows[i][c])
                    ELSE df.rows[i][c]]]]

\* dict(zip(df[kc], df[vc])).get(key, NaN), as Series.map applies it
DictGet(df, kc, vc, key) ==
    LET idx == {i \in 1..Len(df.rows) : df.rows[i][kc] = key}
    IN IF IsNa(key) \/ idx = {} THEN NaN
       ELSE df.rows[CHOOSE i \in idx : \A j \in idx : j <= i][vc]

\* df[dst] = df[src].map(dict(zip(ref[kc], ref[vc])))
MapCol(df, dst, src, ref, kc, vc) ==
    [cols |-> df.cols \cup {dst},
     rows |-> [i \in 1..Len(df.rows) |->
                 [c \in df.cols \cup {dst} |->
                    IF c = dst THEN DictGet(ref, kc, vc, df.rows[i][src])
                    ELSE df.rows[i][c]]]]

\* the number of parameters of fetch_and_process_data
FetchArity == 0

NoFrames == <<>>

\* lines 43-56: each model's frame as fetched and validated, for every
\* answer of the remote source
FetchedFrames ==
    [m \in Models, v \in Variants, fs \in FailSets |->
        validate_dataframe(DataFrame(fetch_odoo_data(m, v, fs)), RequiredColumns(m))]

\* lines 58-75: after the date and id conversions
ConvertedFrames ==
    [m \in Models, v \in Variants, fs \in FailSets |->
        ConvertCols(FetchedFrames[m, v, fs], DateColumns(m), IdColumns(m))]

\* lines 77-86: the names are mapped in and the six frames returned
ProcessedTable ==
    [v \in Variants, fs \in FailSets |->
        << ConvertedFrames["project.project", v, fs],
           ConvertedFrames["hr.employee", v, fs],
           ConvertedFrames["sale.order", v, fs],
           ConvertedFrames["account.move", v, fs],
           MapCol(MapCol(ConvertedFrames["account.analytic.line", v, fs],
                         "project_name", "project_id",
                         ConvertedFrames["project.project", v, fs], "id", "name"),
                  "employee_name", "employee_id",
                  ConvertedFrames["hr.employee", v, fs], "id", "name"),
           MapCol(ConvertedFrames["project.task", v, fs],
                  "project_name", "project_id",
                  ConvertedFrames["project.project", v, fs], "id", "name") >>]

\* lines 42-86: the six processed frames
ProcessedFrames(v, failed) == ProcessedTable[v, failed]

\* fetch_and_process_data(*args): a call with an argument raises TypeError
\* before the body runs; an exception inside the body yields six None.
fetch_and_process_data(args, v, failed, procErr) ==
    IF Len(args) # FetchArity
    THEN [raised |-> "TypeError", isNone |-> FALSE, frames |-> NoFrames]
    ELSE IF procErr
    THEN [raised |-> "none", isNone |-> TRUE, frames |-> NoFrames]
    ELSE [raised |-> "none", isNone |-> FALSE, frames |-> ProcessedFrames(v, failed)]

----------------------------------------------------------------------------
(* DataManager: the cache files *)

WriteOutcomes == {"ok", "openfail", "dumpfail"}

\* save_cached_data: open(DATA_FILE, 'wb') truncates the file, then the
\* serialized frames are dumped into it.  w is what the disk does.
save_cached_data(file, data, w) ==
    CASE w = "ok" -> [file |-> FileOf(serialize_dataframes(data)), raised |-> "none"]
      [] w = "openfail" -> [file |-> file, raised |-> "OSError"]
      [] w = "dumpfail" -> [file |-> CorruptFile, raised |-> "OSError"]

\* the timestamp written with the day alone
set_last_update_time_DateOnly(file, time, w) ==
    CASE w = "ok" -> [file |-> FileOf(IsoformatDateOnly(time)), raised |-> "none"]
      [] w = "openfail" -> [file |-> file, raised |-> "OSError"]
      [] w = "dumpfail" -> [file |-> CorruptFile, raised |-> "OSError"]

\* set_last_update_time: open(LAST_UPDATE_FILE, 'w'), then json.dump
set_last_update_time(file, time, w) ==
    CASE w = "ok" -> [file |-> FileOf(Isoformat(time)), raised |-> "none"]
      [] w = "openfail" -> [file |-> file, raised |-> "OSError"]
      [] w = "dumpfail" -> [file |-> CorruptFile, raised |-> "OSError"]

\* load_cached_data of a readable file (None is modelled by the caller)
load_cached_data(file) == deserialize_dataframes(file.content)

\* get_last_update_time of a readable file
get_last_update_time(file) == FromIsoformat(file.content)

----------------------------------------------------------------------------
(* DataManager.load_or_fetch_data *)

\* timedelta(days=1), timedelta(hours=3)
StaleHours == 24
OverlapHours == 3

\* the comparison turned round
NeedsUpdateInverted(force, current_time, last_update) ==
    force \/ (current_time - last_update) < StaleHours

\* the overlap window taken for the staleness threshold
NeedsUpdateShortWindow(force, current_time, last_update) ==
    force \/ (current_time - last_update) > OverlapHours

\* line 155
NeedsUpdate(force, current_time, last_update) ==
    force \/ (current_time - last_update) > StaleHours

\* line 157, the argument of the fetch
SinceBound(last_update) == last_update - OverlapHours

\* line 151
EmptySnapshot == [i \in 1..5 |-> EmptyFrame]

\* What one call did: its argument and clock reading, the files it found,
\* what the remote source and the disk did meanwhile (variant, remoteFailed,
\* procErr; saved, stamped), the fetches it made with their arguments, and
\* what it returned or raised.
NoCall ==
    [called |-> FALSE, force |-> FALSE, t |-> 0, branch |-> "none",
     raised |-> "none", data |-> <<>>, asOf |-> -1,
     fetches |-> <<>>, variant |-> 0, remoteFailed |-> {}, procErr |-> FALSE,
     fetchNone |-> FALSE,
     saved |-> "no", merged |-> FALSE, stamped |-> "no",
     preData |-> AbsentFile, preTs |-> AbsentFile]

\* the two writes of lines 146-147 in the other order
FullFetchStampFirst(df, lf, call, v, failed, procErr, dataW, tsW) ==
    LET r == fetch_and_process_data(<<>>, v, failed, procErr)
        c1 == [call EXCEPT !.branch = "full", !.fetches = <<<<>>>>,
                           !.variant = v, !.remoteFailed = failed, !.procErr = procErr,
                           !.fetchNone = r.isNone]
        st == set_last_update_time(lf, call.t, tsW)
        sv == save_cached_data(df, r.frames, dataW)
    IN IF r.isNone
       THEN [dataFile |-> df, lastUpdateFile |-> lf,
             call |-> [c1 EXCEPT !.data = EmptySnapshot, !.asOf = call.t]]
       ELSE IF st.raised # "none"
       THEN [dataFile |-> df, lastUpdateFile |-> st.file,
             call |-> [c1 EXCEPT !.raised = st.raised, !.stamped = "failed"]]
       ELSE IF sv.raised # "none"
       THEN [dataFile |-> sv.file, lastUpdateFile |-> st.file,
             call |-> [c1 EXCEPT !.raised = sv.raised, !.stamped = "ok", !.saved = "failed"]]
       ELSE [dataFile |-> sv.file, lastUpdateFile |-> st.file,
             call |-> [c1 EXCEPT !.saved = "ok", !.stamped = "ok",
                                 !.data = r.frames, !.asOf = call.t]]

\* lines 142-151: no cached data or no timestamp
FullFetch(df, lf, call, v, failed, procErr, dataW, tsW) ==
    LET r == fetch_and_process_data(<<>>, v, failed, procErr)
        c1 == [call EXCEPT !.branch = "full", !.fetches = <<<<>>>>,
                           !.variant = v, !.remoteFailed = failed, !.procErr = procErr,
                           !.fetchNone = r.isNone]
        sv == save_cached_data(df, r.frames, dataW)
        st == set_last_update_time(lf, call.t, tsW)
    IN IF r.isNone
       THEN [dataFile |-> df, lastUpdateFile |-> lf,
             call |-> [c1 EXCEPT !.data = EmptySnapshot, !.asOf = call.t]]
       ELSE IF sv.raised # "none"
       THEN [dataFile |-> sv.file, lastUpdateFile |-> lf,
             call |-> [c1 EXCEPT !.raised = sv.raised, !.saved = "failed"]]
       ELSE IF st.raised # "none"
       THEN [dataFile |-> sv.file, lastUpdateFile |-> st.file,
             call |-> [c1 EXCEPT !.raised = st.raised, !.saved = "ok", !.stamped = "failed"]]
       ELSE [dataFile |-> sv.file, lastUpdateFile |-> st.file,
             call |-> [c1 EXCEPT !.saved = "ok", !.stamped = "ok",
                                 !.data = r.frames, !.asOf = call.t]]

\* lines 155-164: cached data is old or a refresh is forced
IncrementalFetch(df, lf, call, cached_data, last_update, v, failed, procErr, dataW, tsW) ==
    LET args == <<SinceBound(last_update)>>
        r == fetch_and_process_data(args, v, failed, procErr)
        c1 == [call EXCEPT !.branch = "incremental", !.fetches = <<args>>,
                           !.variant = v, !.remoteFailed = failed, !.procErr = procErr]
        c2 == [c1 EXCEPT !.fetchNone = r.isNone]
        merged == merge_new_data(cached_data, r.frames)
        sv == save_cached_data(df, merged, dataW)
        st == set_last_update_time(lf, call.t, tsW)
    IN IF r.raised # "none"
       THEN [dataFile |-> df, lastUpdateFile |-> lf,
             call |-> [c1 EXCEPT !.raised = r.raised]]
       ELSE IF r.isNone
       THEN [dataFile |-> df, lastUpdateFile |-> lf,
             call |-> [c2 EXCEPT !.data = cached_data, !.asOf = last_update]]
       ELSE IF sv.raised # "none"
       THEN [dataFile |-> sv.file, lastUpdateFile |-> lf,
             call |-> [c2 EXCEPT !.raised = sv.raised, !.merged = TRUE, !.saved = "failed"]]
       ELSE IF st.raised # "none"
       THEN [dataFile |-> sv.file, lastUpdateFile |-> st.file,
             call |-> [c2 EXCEPT !.raised = st.raised, !.merged = TRUE,
                                 !.saved = "ok", !.stamped = "failed"]]
       ELSE [dataFile |-> sv.file, lastUpdateFile |-> st.file,
             call |-> [c2 EXCEPT !.merged = TRUE, !.saved = "ok", !.stamped = "ok",
                                 !.data = merged, !.asOf = call.t]]

\* lines 137-166.  The result holds the two files after the call and the
\* record of what the call did and returned.
load_or_fetch_data(df, lf, current_time, force, v, failed, procErr, dataW, tsW) ==
    LET call == [NoCall EXCEPT !.called = TRUE, !.force = force, !.t = current_time,
                               !.preData = df, !.preTs = lf]
    IN IF df.st = "corrupt"
       THEN [dataFile |-> df, lastUpdateFile |-> lf,
             call |-> [call EXCEPT !.branch = "load_error", !.raised = "UnpicklingError"]]
       ELSE IF lf.st = "corrupt"
       THEN [dataFile |-> df, lastUpdateFile |-> lf,
             call |-> [call EXCEPT !.branch = "load_error", !.raised = "JSONDecodeError"]]
       ELSE IF df.st = "absent" \/ lf.st = "absent"
       THEN FullFetch(df, lf, call, v, failed, procErr, dataW, tsW)
       ELSE IF NeedsUpdate(force, current_time, get_last_update_time(lf))
       THEN IncrementalFetch(df, lf, call, load_cached_data(df), get_last_update_time(lf),
                             v, failed, procErr, dataW, tsW)
       ELSE [dataFile |-> df, lastUpdateFile |-> lf,
             call |-> [call EXCEPT !.branch = "cached", !.data = load_cached_data(df),
                                   !.asOf = get_last_update_time(lf)]]

----------------------------------------------------------------------------
(* The sync manager as a state machine *)

TickSteps == {12, 25}

\* What the remote source does during one fetch: it answers every model,
\* one model's call raises, every call raises, or the processing raises.
FetchCases ==
    {[v |-> v, failed |-> {}, procErr |-> FALSE] : v \in Variants}
    \cup {[v |-> 1, failed |-> fs, procErr |-> FALSE] : fs \in FailSets}
    \cup {[v |-> 1, failed |-> {}, procErr |-> TRUE]}

\* What the disk does during the two writes of one call: at most one fails
WriteCases ==
    {<<"ok", "ok">>, <<"openfail", "ok">>, <<"dumpfail", "ok">>,
     <<"ok", "openfail">>, <<"ok", "dumpfail">>}

\* the latest as_of that a call with a cached snapshot has returned so far
\* (that of NoCall as long as there is none)
SeenAfter(seen, call) ==
    IF call.raised = "none" /\ call.preData.st = "ok" /\ call.asOf > seen
    THEN call.asOf ELSE seen

\* what the next call remembers of the call before it
Summary(call) ==
    [called |-> call.called, force |-> call.force, t |-> call.t,
     raised |-> call.raised, data |-> call.data, nfetch |-> Len(call.fetches),
     preData |-> call.preData.st, preTs |-> call.preTs]

InitSync ==
    /\ dataFile = AbsentFile
    /\ lastUpdateFile = AbsentFile
    /\ clock = 0
    /\ last = NoCall
    /\ prev = Summary(NoCall)
    /\ as_of_seen = NoCall.asOf
    /\ shown = <<>>
    /\ old_data = <<>>
    /\ new_data = <<>>
    /\ merged_data = <<>>
    /\ mpc = "idle"
    /\ CalcIdle /\ FinIdle /\ JobIdle

\* one call of load_or_fetch_data, as load_all_data and the refresh make it
LoadOrFetch(force, v, failed, procErr, dataW, tsW) ==
    LET r == load_or_fetch_data(dataFile, lastUpdateFile, clock, force,
                                v, failed, procErr, dataW, tsW)
    IN /\ dataFile' = r.dataFile
       /\ lastUpdateFile' = r.lastUpdateFile
       /\ last' = r.call
       /\ prev' = Summary(last)
       /\ as_of_seen' = SeenAfter(as_of_seen, r.call)
       /\ UNCHANGED <<clock, shown, mergeVars, calcVars, finVars, jobVars>>

\* time passes between two calls
Tick(d) ==
    /\ clock + d <= MaxTime
    /\ clock' = clock + d
    /\ UNCHANGED <<dataFile, lastUpdateFile, last, prev, as_of_seen, shown>>
    /\ UNCHANGED <<mergeVars, calcVars, finVars, jobVars>>

\* the branch the next call takes, decided by lines 138-155
Branch(force) ==
    IF dataFile.st = "corrupt" \/ lastUpdateFile.st = "corrupt" THEN "load_error"
    ELSE IF dataFile.st = "absent" \/ lastUpdateFile.st = "absent" THEN "full"
    ELSE IF NeedsUpdate(force, clock, get_last_update_time(lastUpdateFile)) THEN "incremental"
    ELSE "cached"

\* a call that reaches no fetch: it consumes nothing of the environment
CallLocal ==
    \E force \in BOOLEAN :
        /\ Branch(force) \in {"load_error", "cached"}
        /\ LoadOrFetch(force, 1, {}, FALSE, "ok", "ok")

\* a call that fetches: the remote source and the disk do what they do
CallFetch ==
    \E force \in BOOLEAN, f \in FetchCases, w \in WriteCases :
        /\ Branch(force) \in {"full", "incremental"}
        /\ LoadOrFetch(force, f.v, f.failed, f.procErr, w[1], w[2])

Pass == \E d \in TickSteps : Tick(d)

Next == CallLocal \/ CallFetch \/ Pass

Spec == InitSync /\ [][Next]_vars

----------------------------------------------------------------------------
(* merge_new_data on its own: the inputs are drawn from bounded collections *)

MergeIds == {NaN, S("1"), S("2")}
MergeNames == {NaN, S("a"), L("x", "y")}

MergeRows ==
    {[id |-> i, name |-> n] : i \in MergeIds, n \in MergeNames}
    \cup {[id |-> i] : i \in MergeIds}
    \cup {[name |-> n] : n \in MergeNames}

\* the frames of at most n rows, all rows over the same columns
FramesUpTo(n) ==
    {EmptyFrame} \cup
    UNION {{[cols |-> DOMAIN r[1], rows |-> r] :
              r \in {q \in [1..m -> MergeRows] : \A i \in 1..m : DOMAIN q[i] = DOMAIN q[1]}}
           : m \in 1..n}

InitMerge ==
    /\ dataFile = AbsentFile
    /\ lastUpdateFile = AbsentFile
    /\ clock = 0
    /\ last = NoCall
    /\ prev = Summary(NoCall)
    /\ as_of_seen = NoCall.asOf
    /\ shown = <<>>
    /\ old_data \in {<<f>> : f \in FramesUpTo(MaxOldRows)}
    /\ new_data \in {<<f>> : f \in FramesUpTo(MaxNewRows)}
    /\ merged_data = <<>>
    /\ mpc = "ready"
    /\ CalcIdle /\ FinIdle /\ JobIdle

\* merge_new_data(old_data, new_data); lines 108-111 assign the normalised
\* columns into the caller's frames, so both arguments are changed in place
Merge ==
    /\ mpc = "ready"
    /\ merged_data' = merge_new_data(old_data, new_data)
    /\ old_data' = [i \in 1..Len(old_data) |-> NormalizeLists(old_data[i])]
    /\ new_data' = [i \in 1..Len(new_data) |-> NormalizeLists(new_data[i])]
    /\ mpc' = "done"
    /\ UNCHANGED <<syncVars, calcVars, finVars, jobVars>>

NextMerge == Merge

SpecMerge == InitMerge /\ [][NextMerge]_vars

----------------------------------------------------------------------------
(* Vocabulary of the properties *)

\* the call found a readable snapshot and a readable sync timestamp
PreCached(call) == call.preData.st = "ok" /\ call.preTs.st = "ok"

\* the call found no snapshot or no sync timestamp (and no damaged file)
PreMissing(call) ==
    /\ call.preData.st # "corrupt" /\ call.preTs.st # "corrupt"
    /\ (call.preData.st = "absent" \/ call.preTs.st = "absent")

PreTime(call) == get_last_update_time(call.preTs)
PreSnapshot(call) == load_cached_data(call.preData)

\* force is true or the staleness threshold is exceeded
RefreshDue(call) == call.force \/ (call.t - PreTime(call)) > StaleHours

\* the remote source answered every model and the processing went through
SourceAnswered(call) == call.remoteFailed = {} /\ ~call.procErr

\* two consecutive calls with force = False and no time elapsed between them
TwoPlainCalls ==
    /\ prev.called /\ last.called
    /\ ~prev.force /\ ~last.force
    /\ prev.t = last.t

----------------------------------------------------------------------------
(* Properties of load_or_fetch_data, in every state of Spec *)

\* C1 (as stated): from any cache-store state, two consecutive calls with
\* force = False and no elapsed time that both return give the identical
\* snapshot, and the second call performs no remote fetch.
C1_AnyStateIdempotent ==
    (TwoPlainCalls /\ prev.raised = "none" /\ last.raised = "none")
        => (last.data = prev.data /\ Len(last.fetches) = 0)

\* C1 (amended): when the first of the two calls finds a snapshot and a sync
\* timestamp that is not older than the staleness threshold, both calls
\* return the identical snapshot and neither performs a remote fetch.
C1_FreshIdempotent ==
    (/\ TwoPlainCalls
     /\ prev.preData = "ok" /\ prev.preTs.st = "ok"
     /\ (prev.t - get_last_update_time(prev.preTs)) <= StaleHours)
        => (/\ prev.raised = "none" /\ last.raised = "none"
            /\ last.data = prev.data
            /\ prev.nfetch = 0 /\ Len(last.fetches) = 0)

C1_Witness ==
    /\ TwoPlainCalls
    /\ prev.preData = "ok" /\ prev.preTs.st = "ok"
    /\ prev.t > get_last_update_time(prev.preTs)
    /\ (prev.t - get_last_update_time(prev.preTs)) <= StaleHours
    /\ last.raised = "none" /\ Len(last.data) = 6

\* C2: with a cached snapshot, a refresh due and a failing incremental
\* fetch, the call returns the cached snapshot and the old timestamp and
\* leaves both files as they were.
C2_FailedRefreshKeepsCache ==
    (/\ last.called /\ PreCached(last) /\ RefreshDue(last)
     /\ (last.raised = "TypeError" \/ last.fetchNone))
        => (/\ last.raised = "none"
            /\ last.data = PreSnapshot(last)
            /\ last.asOf = PreTime(last)
            /\ dataFile = last.preData
            /\ lastUpdateFile = last.preTs)

\* C3: the sync timestamp file changes only in a call whose remote fetch
\* succeeded for every record type and whose snapshot was persisted.
C3_StampOnlyAfterFullSuccess ==
    (last.called /\ lastUpdateFile # last.preTs)
        => (/\ Len(last.fetches) = 1
            /\ SourceAnswered(last) /\ ~last.fetchNone
            /\ last.saved = "ok")

\* C4: when writing the snapshot raises, the error reaches the caller and
\* the snapshot persisted before the call is still the persisted one.
C4_FailedSaveKeepsSnapshot ==
    (last.called /\ last.preData.st = "ok" /\ last.saved = "failed")
        => (last.raised # "none" /\ dataFile = last.preData)

C6_FailedFullFetchSixEmpty ==
    (last.called /\ PreMissing(last) /\ last.fetchNone)
        => (/\ last.raised = "none"
            /\ Len(last.data) = 6
            /\ \A i \in 1..Len(last.data) : last.data[i] = EmptyFrame
            /\ last.asOf = last.t)

\* C7: with a snapshot and a sync timestamp, force false and the timestamp
\* younger than the staleness threshold, the call returns the cached
\* snapshot with as_of = last_sync_timestamp, fetches nothing and leaves
\* both files as they were.
C7_FreshCacheServed ==
    (/\ last.called /\ PreCached(last) /\ ~last.force
     /\ (last.t - PreTime(last)) < StaleHours)
        => (/\ last.raised = "none"
            /\ last.data = PreSnapshot(last)
            /\ last.asOf = PreTime(last)
            /\ last.fetches = <<>>
            /\ dataFile = last.preData
            /\ lastUpdateFile = last.preTs)

C7_Witness ==
    /\ last.called /\ PreCached(last) /\ ~last.force
    /\ last.t > PreTime(last)
    /\ (last.t - PreTime(last)) < StaleHours
    /\ Len(last.data) = 6 /\ last.asOf < last.t

\* C8: with a cached snapshot and a refresh due, the fetcher is called
\* once with last_sync_timestamp minus three hours and accepts that bound.
C8_FetcherTakesSince ==
    (last.called /\ PreCached(last) /\ RefreshDue(last))
        => (/\ last.fetches = << <<PreTime(last) - 3>> >>
            /\ last.raised # "TypeError")

\* C9: when the source answers the incremental fetch and the call is not
\* stopped by the disk, the merged snapshot is persisted, the timestamp is
\* now, and the merged snapshot is returned with as_of = now and equals
\* what load_cached_data returns next.
C9_RefreshMergesAndPersists ==
    (last.called /\ PreCached(last) /\ RefreshDue(last) /\ SourceAnswered(last))
        => (/\ last.raised \in {"none", "OSError"}
            /\ last.raised = "none"
                 => (/\ last.merged
                     /\ last.data = merge_new_data(PreSnapshot(last),
                                        ProcessedFrames(last.variant, last.remoteFailed))
                     /\ last.asOf = last.t
                     /\ dataFile.st = "ok"
                     /\ load_cached_data(dataFile) = last.data
                     /\ lastUpdateFile.st = "ok"
                     /\ get_last_update_time(lastUpdateFile) = last.t))

----------------------------------------------------------------------------
(* Properties of merge_new_data, in every state of SpecMerge *)

\* the non-null ids that occur in both collections
SharedIds(o, n) ==
    IF "id" \in o.cols /\ "id" \in n.cols
    THEN ({o.rows[i]["id"] : i \in 1..Len(o.rows)}
          \cap {n.rows[j]["id"] : j \in 1..Len(n.rows)}) \ {NaN}
    ELSE {}

\* the delta's record of an id (the last one, should the delta repeat it)
DeltaVersion(n, id, cols) ==
    LET js == {j \in 1..Len(n.rows) : n.rows[j]["id"] = id}
    IN Reindex(n, cols).rows[CHOOSE j \in js : \A j2 \in js : j2 <= j]

\* C10: for collections that both have an id field, the merge holds exactly
\* one record for each id occurring in both, and it is the delta's record.
C10_LastWriteWins ==
    (mpc = "done")
        => \A c \in 1..Len(merged_data) :
             \A id \in SharedIds(old_data[c], new_data[c]) :
                /\ "id" \in merged_data[c].cols
                /\ LET m == merged_data[c]
                       hits == {i \in 1..Len(m.rows) : m.rows[i]["id"] = id}
                   IN /\ Cardinality(hits) = 1
                      /\ \A i \in hits : m.rows[i] = DeltaVersion(new_data[c], id, m.cols)

C10_Witness ==
    /\ mpc = "done"
    /\ Len(old_data[1].rows) = 2
    /\ \E id \in SharedIds(old_data[1], new_data[1]) :
         \E i \in 1..Len(old_data[1].rows) :
            /\ old_data[1].rows[i]["id"] = id
            /\ "name" \in old_data[1].cols /\ "name" \in new_data[1].cols
            /\ old_data[1].rows[i]["name"] # NaN
            /\ DeltaVersion(new_data[1], id, {"id", "name"})["name"]
                  \notin {NaN, old_data[1].rows[i]["name"]}

\* the id of row i, null where the collection has no id field
IdOf(df, i) == IF "id" \in df.cols THEN df.rows[i]["id"] ELSE NaN

\* no non-null id occurs twice in the collection
UniqueIds(df) ==
    \A i, j \in 1..Len(df.rows) :
        (i < j /\ ~IsNa(IdOf(df, i))) => IdOf(df, i) # IdOf(df, j)

\* row i of df is a row of m, field by field (a field m does not have is null)
RowIn(df, i, m) ==
    /\ \A c \in df.cols \ m.cols : IsNa(df.rows[i][c])
    /\ \E j \in 1..Len(m.rows) :
          \A c \in m.cols :
             m.rows[j][c] = (IF c \in df.cols THEN df.rows[i][c] ELSE NaN)

\* C11: merging collections whose ids are unique loses and duplicates nothing:
\* every old record whose id the delta does not carry (a null or absent id
\* included) and every delta record is in the result, and no id occurs twice.
C11_NoLossNoDuplication ==
    (mpc = "done" /\ UniqueIds(old_data[1]) /\ UniqueIds(new_data[1]))
        => LET o == old_data[1]
               n == new_data[1]
               m == merged_data[1]
               deltaIds == {IdOf(n, j) : j \in 1..Len(n.rows)} \ {NaN}
           IN /\ \A i \in 1..Len(o.rows) :
                    IdOf(o, i) \notin deltaIds => RowIn(o, i, m)
              /\ \A j \in 1..Len(n.rows) : RowIn(n, j, m)
              /\ UniqueIds(m)

\* the rows of df that equal row i of src
Copies(df, src, i) ==
    {j \in 1..Len(df.rows) :
        \A c \in df.cols \cup src.cols :
           (IF c \in df.cols THEN df.rows[j][c] ELSE NaN)
             = (IF c \in src.cols THEN src.rows[i][c] ELSE NaN)}

\* C12: when neither collection has an id field, a record that is in both
\* collections is in the result exactly once, and every record of either
\* collection is in the result.
C12_DedupWithoutId ==
    (mpc = "done" /\ "id" \notin old_data[1].cols /\ "id" \notin new_data[1].cols)
        => LET o == old_data[1]
               n == new_data[1]
               m == merged_data[1]
           IN /\ \A i \in 1..Len(o.rows) :
                    /\ Copies(m, o, i) # {}
                    /\ Copies(n, o, i) # {} => Cardinality(Copies(m, o, i)) = 1
              /\ \A j \in 1..Len(n.rows) : Copies(m, n, j) # {}

\* the non-null fields of row i: what the record says
Fields(df, i) == {<<c, df.rows[i][c]>> : c \in {d \in df.cols : ~IsNa(df.rows[i][d])}}

RecordSet(df) == {Fields(df, i) : i \in 1..Len(df.rows)}

\* C28: merging the same delta a second time changes nothing: the result of
\* merge_new_data(merge_new_data(old, delta), delta) holds the same records
\* as merge_new_data(old, delta), and no more rows.
C28_MergeIdempotentInDelta ==
    mpc = "done"
        => LET again == merge_new_data(merged_data, new_data)[1]
           IN /\ RecordSet(again) = RecordSet(merged_data[1])
              /\ Len(again.rows) <= Len(merged_data[1].rows)

----------------------------------------------------------------------------
(* callbacks/project.py: the revenue of timesheet lines.  Amounts of money  *)
(* are counted in eighths of a currency unit, so that unit_amount / 8 of a  *)
(* daily rate is a whole number for every number of hours.                  *)

\* line 103, (row['unit_amount'] / 8): the hours of a day.  An amount of
\* money m is held as the whole number m * HoursPerDay.
HoursPerDay == 8

\* the number a numeric cell holds
NumberOf(x) == IF x.a = "4" THEN 4 ELSE 8

\* float(text) of the rate texts that are numbers
RateValue == [t \in {"100", "800"} |-> IF t = "100" THEN 100 ELSE 800]

\* job_costs.get(job_title, {})
JobCostGet(job_costs, job_title) ==
    IF job_title \in DOMAIN job_costs THEN job_costs[job_title] ELSE <<>>

\* float(job_cost_data.get('revenue') or 0); lines 97-101 turn the ValueError
\* of a text that is no number into 0
DailyRevenue(job_cost_data) ==
    LET r == IF "revenue" \in DOMAIN job_cost_data THEN job_cost_data["revenue"] ELSE ""
    IN IF r \in DOMAIN RateValue THEN RateValue[r] ELSE 0

\* extract_job_title(employee): a job_id that is a str is read as the literal
\* of a list and its second element is the title (a text that is no literal
\* gives 'Unknown'); a job_id of another type leaves the job_title field
extract_job_title(df, i) ==
    LET employee == df.rows[i]
    IN IF "job_id" \in df.cols /\ employee["job_id"].k \in {"str", "val"}
       THEN (IF employee["job_id"].k = "str" THEN employee["job_id"].b ELSE "Unknown")
       ELSE IF "job_title" \in df.cols
            THEN (IF IsNa(employee["job_title"]) THEN "nan" ELSE employee["job_title"].a)
            ELSE "Unknown"

\* employees_data[employees_data['name'] == row['employee_name']]
EmployeeMatches(employees_data, name) ==
    {i \in 1..Len(employees_data.rows) :
        ~IsNa(name) /\ employees_data.rows[i]["name"] = name}

\* the hours of the line left out: every line counts as a whole day
LineRevenueWholeDay(unit_amount, employee_name, employees_data, job_costs) ==
    LET found == EmployeeMatches(employees_data, employee_name)
        first == CHOOSE i \in found : \A j \in found : i <= j
        job_title == extract_job_title(employees_data, first)
    IN IF found = {} THEN 0
       ELSE HoursPerDay * DailyRevenue(JobCostGet(job_costs, job_title))

\* lines 79-103, one pass of the loop: the revenue that a line of
\* unit_amount hours of the employee adds (nothing when nobody has the name)
LineRevenue(unit_amount, employee_name, employees_data, job_costs) ==
    LET found == EmployeeMatches(employees_data, employee_name)
        first == CHOOSE i \in found : \A j \in found : i <= j
        job_title == extract_job_title(employees_data, first)
    IN IF found = {} THEN 0
       ELSE unit_amount * DailyRevenue(JobCostGet(job_costs, job_title))

\* calculate_project_revenue(timesheet_data, employees_data, job_costs)
RECURSIVE calculate_project_revenue(_, _, _)
calculate_project_revenue(timesheet_rows, employees_data, job_costs) ==
    IF timesheet_rows = <<>> THEN 0
    ELSE LineRevenue(NumberOf(Head(timesheet_rows)["unit_amount"]),
                     Head(timesheet_rows)["employee_name"], employees_data, job_costs)
         + calculate_project_revenue(Tail(timesheet_rows), employees_data, job_costs)

\* line 274: float(job_costs.get(job_title, {}).get('revenue') or 0), with
\* no try around it: a text that is no number raises ValueError
EntryDailyRevenue(job_cost_data) ==
    LET r == IF "revenue" \in DOMAIN job_cost_data THEN job_cost_data["revenue"] ELSE ""
    IN IF r = "" THEN [raised |-> "none", value |-> 0]
       ELSE IF r \in DOMAIN RateValue THEN [raised |-> "none", value |-> RateValue[r]]
       ELSE [raised |-> "ValueError", value |-> 0]

\* calculate_entry_revenue(row, employees_data, job_costs)
calculate_entry_revenue(row, employees_data, job_costs) ==
    LET found == EmployeeMatches(employees_data, row["employee_name"])
        first == CHOOSE i \in found : \A j \in found : i <= j
        job_title == extract_job_title(employees_data, first)
        daily_revenue == EntryDailyRevenue(JobCostGet(job_costs, job_title))
    IN IF found = {} THEN [raised |-> "none", value |-> 0]
       ELSE IF daily_revenue.raised # "none" THEN daily_revenue
       ELSE [raised |-> "none",
             value |-> NumberOf(row["unit_amount"]) * daily_revenue.value]

\* create_revenue_chart, lines 204-206: the revenue column, one
\* calculate_entry_revenue per line; the first error ends the apply
EntryRevenues(rows, employees_data, job_costs) ==
    LET each == [i \in 1..Len(rows) |->
                    calculate_entry_revenue(rows[i], employees_data, job_costs)]
        bad == {i \in 1..Len(rows) : each[i].raised # "none"}
    IN IF bad # {}
       THEN [raised |-> each[CHOOSE i \in bad : \A j \in bad : i <= j].raised,
             values |-> <<>>]
       ELSE [raised |-> "none", values |-> [i \in 1..Len(rows) |-> each[i].value]]

----------------------------------------------------------------------------
(* callbacks/financials.py: calculate_all_financials *)

DayNumber(x) == IF x.a = "2024-01-01" THEN 1 ELSE 2

\* next((col for col in df_timesheet.columns if 'date' in col.lower()), None)
DateLikeColumns == {"date", "date_start", "date_end", "date_order", "create_date"}
DateColumnOf(df) ==
    IF df.cols \cap DateLikeColumns = {} THEN "none"
    ELSE IF "date" \in df.cols THEN "date"
    ELSE CHOOSE c \in df.cols \cap DateLikeColumns : TRUE

\* Series.sum() of the unit_amount column
RECURSIVE SumHours(_)
SumHours(rows) ==
    IF rows = <<>> THEN 0 ELSE NumberOf(Head(rows)["unit_amount"]) + SumHours(Tail(rows))

\* the group keys of groupby(date_column), in ascending order
RECURSIVE SortedDates(_)
SortedDates(D) ==
    IF D = {} THEN <<>>
    ELSE LET m == CHOOSE d \in D : \A e \in D : DayNumber(d) <= DayNumber(e)
         IN <<m>> \o SortedDates(D \ {m})

\* lines 163-172: one record per date; list(set(x)) is kept as the set
DailyData(rows, date_column) ==
    LET days == SortedDates({rows[i][date_column] : i \in 1..Len(rows)})
    IN [k \in 1..Len(days) |->
          LET grp == KeepRows(rows, {i \in 1..Len(rows) : rows[i][date_column] = days[k]}, 1)
          IN [date |-> days[k],
              unit_amount |-> SumHours(grp),
              employee_name |-> {grp[i]["employee_name"] : i \in 1..Len(grp)},
              task_id |-> {grp[i]["task_id"] : i \in 1..Len(grp)}]]

\* lines 151-155: the lines of one project within [start_date, end_date]
ProjectTimesheetOpenEnd(df, date_column, project_name, start_date, end_date) ==
    KeepRows(df.rows,
             {i \in 1..Len(df.rows) :
                /\ df.rows[i]["project_name"] = project_name
                /\ DayNumber(df.rows[i][date_column]) >= DayNumber(start_date)
                /\ DayNumber(df.rows[i][date_column]) < DayNumber(end_date)}, 1)

ProjectTimesheet(df, date_column, project_name, start_date, end_date) ==
    KeepRows(df.rows,
             {i \in 1..Len(df.rows) :
                /\ df.rows[i]["project_name"] = project_name
                /\ DayNumber(df.rows[i][date_column]) >= DayNumber(start_date)
                /\ DayNumber(df.rows[i][date_column]) <= DayNumber(end_date)}, 1)

\* lines 160-175: the aggregate of one project
ProjectFinancials(rows, date_column, df_employees, job_costs) ==
    [total_revenue |-> calculate_project_revenue(rows, df_employees, job_costs),
     total_hours |-> SumHours(rows),
     daily_data |-> DailyData(rows, date_column)]

NoFinancials == <<>>

\* calculate_all_financials: the result is [raised, data]; data maps the
\* names of the projects that have lines in the range to their aggregates.
\* A missing column raises KeyError, a task_id that is a list cannot be put
\* into set(x) and raises TypeError.
calculate_all_financials(df_portfolio, df_employees, df_timesheet, df_tasks, job_costs, start_date, end_date) ==
    LET date_column == DateColumnOf(df_timesheet)
        converted == [cols |-> df_timesheet.cols,
                      rows |-> [i \in 1..Len(df_timesheet.rows) |->
                                  [c \in df_timesheet.cols |->
                                     IF c = date_column
                                     THEN ToDatetime(df_timesheet.rows[i][c])
                                     ELSE df_timesheet.rows[i][c]]]]
        dated == [cols |-> converted.cols,
                  rows |-> KeepRows(converted.rows,
                                    {i \in 1..Len(converted.rows) :
                                        ~IsNa(converted.rows[i][date_column])}, 1)]
        names == {df_portfolio.rows[i]["name"] : i \in 1..Len(df_portfolio.rows)}
        linesOf(p) == ProjectTimesheet(dated, date_column, p, start_date, end_date)
        present == {p \in names : linesOf(p) # <<>>}
    IN IF date_column = "none" THEN [raised |-> "none", data |-> NoFinancials]
       ELSE IF Len(df_portfolio.rows) > 0 /\ "project_name" \notin dated.cols
       THEN [raised |-> "KeyError", data |-> NoFinancials]
       ELSE IF present # {}
               /\ ~({"employee_name", "unit_amount", "task_id"} \subseteq dated.cols)
       THEN [raised |-> "KeyError", data |-> NoFinancials]
       ELSE IF \E p \in present :
                 \E i \in 1..Len(linesOf(p)) : linesOf(p)[i]["task_id"].k = "list"
       THEN [raised |-> "TypeError", data |-> NoFinancials]
       ELSE [raised |-> "none",
             data |-> [p \in present |->
                         ProjectFinancials(linesOf(p), date_column, df_employees, job_costs)]]

\* create_financials_chart, lines 190-199: the revenue drawn for one day is
\* that of a single line holding the day's hours and the first name of
\* list(set(names)), whose order Python does not fix
ChartDailyRevenue(day, first, df_employees, job_costs) ==
    LineRevenue(day.unit_amount, first, df_employees, job_costs)

----------------------------------------------------------------------------
(* calculate_all_financials on its own: the arguments are drawn from a      *)
(* bounded set of timesheets, rate tables and date ranges                   *)

MaxLines == 3

StrList(x, y) == [k |-> "str", a |-> x, b |-> y]

CalcPortfolio == DataFrame(<<[name |-> S("Alpha")], [name |-> S("Beta")]>>)

\* Bob and Eve carry the text of their job_id list, Dan the list itself
CalcEmployees ==
    DataFrame(<<[name |-> S("Bob"), job_id |-> StrList("5", "Engineer")],
                [name |-> S("Eve"), job_id |-> StrList("6", "Analyst")],
                [name |-> S("Dan"), job_id |-> L("7", "Intern")]>>)

JobCostTables ==
    {[Engineer |-> [cost |-> "100", revenue |-> "800"],
      Analyst |-> [cost |-> "", revenue |-> "100"]],
     [Engineer |-> [cost |-> "", revenue |-> "100"],
      Analyst |-> [cost |-> "", revenue |-> ""],
      Unknown |-> [cost |-> "", revenue |-> "n/a"]]}

\* the timesheet lines a data store can hold: nobody is called Ghost, one
\* task_id is still the list the source sent, one date is no date, one line
\* has no task and one has no date
CalcLines ==
    <<[project_name |-> S("Alpha"), employee_name |-> S("Bob"), unit_amount |-> S("8"),
       date |-> S("2024-01-01"), task_id |-> S("T1")],
      [project_name |-> S("Alpha"), employee_name |-> S("Eve"), unit_amount |-> S("4"),
       date |-> S("2024-01-01"), task_id |-> S("T1")],
      [project_name |-> S("Alpha"), employee_name |-> S("Bob"), unit_amount |-> S("4"),
       date |-> S("2024-01-02"), task_id |-> S("T2")],
      [project_name |-> S("Alpha"), employee_name |-> S("Ghost"), unit_amount |-> S("8"),
       date |-> S("2024-01-01"), task_id |-> S("T1")],
      [project_name |-> S("Beta"), employee_name |-> S("Eve"), unit_amount |-> S("8"),
       date |-> S("2024-01-02"), task_id |-> S("T2")],
      [project_name |-> S("Alpha"), employee_name |-> S("Dan"), unit_amount |-> S("8"),
       date |-> S("2024-01-02"), task_id |-> S("T1")],
      [project_name |-> S("Alpha"), employee_name |-> S("Bob"), unit_amount |-> S("8"),
       date |-> S("2024-01-02"), task_id |-> L("60", "T1")],
      [project_name |-> S("Alpha"), employee_name |-> S("Bob"), unit_amount |-> S("8"),
       date |-> S("n/a"), task_id |-> S("T1")],
      [project_name |-> S("Beta"), employee_name |-> S("Bob"), unit_amount |-> S("4"),
       date |-> S("2024-01-01")],
      [project_name |-> S("Alpha"), employee_name |-> S("Bob"), unit_amount |-> S("8"),
       task_id |-> S("T1")]>>

\* the timesheets of at most n of these lines
TimesheetsUpTo(n) ==
    {DataFrame(KeepRows(CalcLines, I, 1)) :
        I \in {J \in SUBSET (1..Len(CalcLines)) : Cardinality(J) <= n}}

RangeDates == {Ts("2024-01-01"), Ts("2024-01-02")}

SyncIdle ==
    /\ dataFile = AbsentFile
    /\ lastUpdateFile = AbsentFile
    /\ clock = 0
    /\ last = NoCall
    /\ prev = Summary(NoCall)
    /\ as_of_seen = NoCall.asOf
    /\ shown = <<>>

InitCalc ==
    /\ SyncIdle /\ MergeIdle /\ FinIdle /\ JobIdle /\ RevIdle
    /\ calc_in \in [timesheet : TimesheetsUpTo(MaxLines), job_costs : JobCostTables,
                    start_date : RangeDates, end_date : RangeDates]
    /\ calc_out = <<>>
    /\ cpc = "ready"

Calculate ==
    /\ cpc = "ready"
    /\ calc_out' = calculate_all_financials(CalcPortfolio, CalcEmployees, calc_in.timesheet,
                                            EmptyFrame, calc_in.job_costs,
                                            calc_in.start_date, calc_in.end_date)
    /\ cpc' = "done"
    /\ UNCHANGED <<calc_in, revVars, syncVars, mergeVars, finVars, jobVars>>

NextCalc == Calculate

SpecCalc == InitCalc /\ [][NextCalc]_vars

----------------------------------------------------------------------------
(* Properties of calculate_all_financials, in every state of SpecCalc *)

\* the lines of the timesheet whose employee_name nobody has
UnmatchedLines(df) ==
    {i \in 1..Len(df.rows) :
        "employee_name" \in df.cols
        /\ EmployeeMatches(CalcEmployees, df.rows[i]["employee_name"]) = {}}

WithoutLines(df, I) ==
    [cols |-> df.cols, rows |-> KeepRows(df.rows, (1..Len(df.rows)) \ I, 1)]

\* what a result says of a project; a project it does not list has nothing
HoursOf(data, p) == IF p \in DOMAIN data THEN data[p].total_hours ELSE 0
RevenueOf(data, p) == IF p \in DOMAIN data THEN data[p].total_revenue ELSE 0
DayHoursOf(data, p, d) ==
    IF p \in DOMAIN data /\ \E k \in 1..Len(data[p].daily_data) : data[p].daily_data[k].date = d
    THEN data[p].daily_data[CHOOSE k \in 1..Len(data[p].daily_data) :
                               data[p].daily_data[k].date = d].unit_amount
    ELSE 0

ProjectNames == {S("Alpha"), S("Beta")}

\* C13: lines whose employee_name matches no employee change nothing: when
\* the computation without them succeeds, the computation with them succeeds
\* too and gives every project the same total_revenue, total_hours and hours
\* of every day.
C13_UnmatchedLineIgnored ==
    (cpc = "done" /\ UnmatchedLines(calc_in.timesheet) # {})
        => LET ref == calculate_all_financials(
                          CalcPortfolio, CalcEmployees,
                          WithoutLines(calc_in.timesheet, UnmatchedLines(calc_in.timesheet)),
                          EmptyFrame, calc_in.job_costs, calc_in.start_date, calc_in.end_date)
           IN ref.raised = "none"
                => /\ calc_out.raised = "none"
                   /\ \A p \in ProjectNames :
                         /\ RevenueOf(calc_out.data, p) = RevenueOf(ref.data, p)
                         /\ HoursOf(calc_out.data, p) = HoursOf(ref.data, p)
                         /\ \A d \in RangeDates :
                               DayHoursOf(calc_out.data, p, d) = DayHoursOf(ref.data, p, d)

RECURSIVE SumDays(_, _)
SumDays(days, field) ==
    IF days = <<>> THEN 0 ELSE Head(days)[field] + SumDays(Tail(days), field)

\* the daily revenues a chart can show: one first name per day
FirstNames(days) ==
    {f \in [1..Len(days) -> UNION {days[k].employee_name : k \in 1..Len(days)}] :
        \A k \in 1..Len(days) : f[k] \in days[k].employee_name}

RECURSIVE SumChart(_, _, _, _)
SumChart(days, f, k, job_rates) ==
    IF k > Len(days) THEN 0
    ELSE ChartDailyRevenue(days[k], f[k], CalcEmployees, job_rates)
         + SumChart(days, f, k + 1, job_rates)

\* the lines of project p on date d that the computation counted
LinesOn(p, d) ==
    LET df == calc_in.timesheet
    IN KeepRows(df.rows,
                {i \in 1..Len(df.rows) :
                    /\ df.rows[i]["project_name"] = p
                    /\ ToDatetime(df.rows[i]["date"]) = d
                    /\ DayNumber(d) >= DayNumber(calc_in.start_date)
                    /\ DayNumber(d) <= DayNumber(calc_in.end_date)}, 1)

\* C14: each project of the result has one daily entry per date of its lines,
\* holding the hours and the revenue of that day's lines, total_hours is the
\* sum of the daily hours and total_revenue the sum of the daily revenues
\* (stated for the timesheets whose every line names an employee).
C14_DailyDataAddsUp ==
    (cpc = "done" /\ calc_out.raised = "none" /\ UnmatchedLines(calc_in.timesheet) = {})
        => \A p \in DOMAIN calc_out.data :
             LET agg == calc_out.data[p]
                 days == agg.daily_data
             IN /\ \A d \in RangeDates :
                      (LinesOn(p, d) # <<>>)
                         <=> (\E k \in 1..Len(days) : days[k].date = d)
                /\ \A j, k \in 1..Len(days) : days[j].date = days[k].date => j = k
                /\ \A k \in 1..Len(days) :
                      /\ days[k].unit_amount = SumHours(LinesOn(p, days[k].date))
                      /\ \A first \in days[k].employee_name :
                            ChartDailyRevenue(days[k], first, CalcEmployees, calc_in.job_costs)
                              = calculate_project_revenue(LinesOn(p, days[k].date),
                                                          CalcEmployees, calc_in.job_costs)
                /\ agg.total_hours = SumDays(days, "unit_amount")
                /\ \A f \in FirstNames(days) :
                      agg.total_revenue = SumChart(days, f, 1, calc_in.job_costs)

----------------------------------------------------------------------------
(* The aggregate cache: financials_data.json and                            *)
(* last_financials_calculation.json, written by update_financials and read  *)
(* by DataManager.load_financials_data                                      *)

\* json.dump(data, f, cls=DateTimeEncoder): a Timestamp becomes its text
JsonOfDay(day) ==
    [date |-> S(day.date.a), unit_amount |-> day.unit_amount,
     employee_name |-> day.employee_name, task_id |-> day.task_id]

JsonOfFinancials(data) ==
    [p \in DOMAIN data |->
        [total_revenue |-> data[p].total_revenue,
         total_hours |-> data[p].total_hours,
         daily_data |-> [k \in 1..Len(data[p].daily_data) |->
                            JsonOfDay(data[p].daily_data[k])]]]

\* callbacks/financials.py save_financials_data(data)
save_financials_data(data) == FileOf(JsonOfFinancials(data))

\* set_last_calculation_time(time) / get_last_calculation_time()
set_last_calculation_time(time) == FileOf(Isoformat(time))
get_last_calculation_time(file) == FromIsoformat(file.content)

\* sum(day[field] for day in days if field in day)
RECURSIVE SumPresent(_, _)
SumPresent(days, field) ==
    IF days = <<>> THEN 0
    ELSE (IF field \in DOMAIN Head(days) THEN Head(days)[field] ELSE 0)
         + SumPresent(Tail(days), field)

\* lines 185-186: the date test of one stored day (None leaves a side open)
DayInRange(day, start_date, end_date) ==
    /\ start_date = None \/ DayNumber(ToDatetime(day.date)) >= DayNumber(start_date)
    /\ end_date = None \/ DayNumber(ToDatetime(day.date)) <= DayNumber(end_date)

\* lines 183-187
FilteredDailyData(project_data, start_date, end_date) ==
    KeepRows(project_data.daily_data,
             {k \in 1..Len(project_data.daily_data) :
                 DayInRange(project_data.daily_data[k], start_date, end_date)}, 1)

\* the same without lines 196-199
load_financials_data_NoFallback(file, start_date, end_date) ==
    IF file.st = "absent" THEN NoFinancials
    ELSE LET data == file.content
             kept == {p \in DOMAIN data :
                        FilteredDailyData(data[p], start_date, end_date) # <<>>}
         IN [p \in kept |->
               LET days == FilteredDailyData(data[p], start_date, end_date)
               IN [total_revenue |-> SumPresent(days, "revenue"),
                   total_hours |-> SumPresent(days, "unit_amount"),
                   daily_data |-> days]]

\* DataManager.load_financials_data(start_date, end_date)
load_financials_data(file, start_date, end_date) ==
    IF file.st = "absent" THEN NoFinancials
    ELSE LET data == file.content
             kept == {p \in DOMAIN data :
                        FilteredDailyData(data[p], start_date, end_date) # <<>>}
         IN IF kept = {} THEN data
            ELSE [p \in kept |->
                    LET days == FilteredDailyData(data[p], start_date, end_date)
                    IN [total_revenue |-> SumPresent(days, "revenue"),
                        total_hours |-> SumPresent(days, "unit_amount"),
                        daily_data |-> days]]

\* the job_costs that register_financials_callbacks was given
RegisteredJobCosts ==
    [Engineer |-> [cost |-> "100", revenue |-> "800"],
     Analyst |-> [cost |-> "", revenue |-> "100"]]

\* the timesheet lines of the data store at the time of a recompute
StoreCases == {{}, {1}, {4}, {7}, {10}, {1, 2, 3}, {1, 3, 5}}

\* the data store: serialize_dataframes of the six frames
DataStore(I) ==
    serialize_dataframes(<<CalcPortfolio, CalcEmployees, EmptyFrame, EmptyFrame,
                           DataFrame(KeepRows(CalcLines, I, 1)), EmptyFrame>>)

\* lines 80-87: the frames of the store and what is computed from them, for
\* every store and range of the model
Recomputed ==
    [I \in StoreCases, start_date \in RangeDates, end_date \in RangeDates |->
        LET frames == deserialize_dataframes(DataStore(I))
        IN calculate_all_financials(frames[1], frames[2], frames[5], frames[6],
                                    RegisteredJobCosts, start_date, end_date)]

\* update_financials(start_date, end_date, n_clicks, data_store) at time now,
\* the store holding the lines I:
\* what it returns and what it leaves in the two files.  Lines 87-89 are the
\* only computation there is: one calculate_all_financials over the whole
\* range, then the two writes; get_last_calculation_time is not called.
update_financials(ff, lf, now, triggered, start_date, end_date, I) ==
    LET frames == deserialize_dataframes(DataStore(I))
        r == Recomputed[I, start_date, end_date]
        base == [op |-> "update", triggered |-> triggered, t |-> now,
                 start_date |-> start_date, end_date |-> end_date,
                 timesheet |-> frames[5], preFile |-> ff, preCalc |-> lf]
    IN IF ~triggered
       THEN [financialsFile |-> ff, lastCalcFile |-> lf,
             call |-> [base EXCEPT !.timesheet = EmptyFrame] @@
                      [mode |-> "none", raised |-> "none", data |-> NoFinancials,
                       status |-> "No data calculated yet"]]
       ELSE IF r.raised # "none"
       THEN [financialsFile |-> ff, lastCalcFile |-> lf,
             call |-> base @@ [mode |-> "full", raised |-> r.raised, data |-> NoFinancials,
                               status |-> "Error"]]
       ELSE [financialsFile |-> save_financials_data(r.data),
             lastCalcFile |-> set_last_calculation_time(now),
             call |-> base @@ [mode |-> "full", raised |-> "none", data |-> r.data,
                               status |-> IF r.data = NoFinancials
                                          THEN "No data available"
                                          ELSE "Calculation complete"]]

\* the state after a first sync at time 0 that fetched everything
InitFin ==
    /\ dataFile = save_cached_data(AbsentFile, ProcessedFrames(1, {}), "ok").file
    /\ lastUpdateFile = set_last_update_time(AbsentFile, 0, "ok").file
    /\ clock = 0
    /\ last = NoCall
    /\ prev = Summary(NoCall)
    /\ as_of_seen = NoCall.asOf
    /\ shown = <<>>
    /\ MergeIdle /\ CalcIdle /\ FinIdle /\ JobIdle

UpdateFinancials ==
    \E triggered \in BOOLEAN, I \in StoreCases, start_date \in RangeDates, end_date \in RangeDates :
        /\ triggered \/ (I = {} /\ start_date = end_date /\ DayNumber(start_date) = 1)
        /\ LET r == update_financials(financialsFile, lastCalcFile, clock, triggered,
                                      start_date, end_date, I)
           IN /\ financialsFile' = r.financialsFile
              /\ lastCalcFile' = r.lastCalcFile
              /\ fin' = r.call
        /\ UNCHANGED <<syncVars, mergeVars, calcVars, jobVars>>

LoadFinancials ==
    \E start_date \in RangeDates \cup {None}, end_date \in RangeDates \cup {None} :
        /\ fin' = [op |-> "load", start_date |-> start_date, end_date |-> end_date,
                   data |-> load_financials_data(financialsFile, start_date, end_date)]
        /\ UNCHANGED <<financialsFile, lastCalcFile, syncVars, mergeVars, calcVars, jobVars>>

NextFin == UpdateFinancials \/ LoadFinancials \/ Pass

SpecFin == InitFin /\ [][NextFin]_vars

----------------------------------------------------------------------------
(* Properties of the aggregate cache, in every state of SpecFin *)

\* the stored days of a project whose date lies in the range of the last load
RetainedDays(project_data) ==
    KeepRows(project_data.daily_data,
             {k \in 1..Len(project_data.daily_data) :
                 LET d == DayNumber(ToDatetime(project_data.daily_data[k].date))
                 IN /\ fin.start_date # None => d >= DayNumber(fin.start_date)
                    /\ fin.end_date # None => d <= DayNumber(fin.end_date)}, 1)

Stored == financialsFile.content

\* C15: a load that retains some day gives each project exactly its days in
\* the range, total_hours as the sum of their hours and total_revenue as the
\* sum of their revenues; so a project all of whose days are retained keeps
\* the total_revenue that the recompute stored for it.
C15_FilteredTotals ==
    (fin.op = "load" /\ financialsFile.st = "ok"
       /\ \E p \in DOMAIN Stored : RetainedDays(Stored[p]) # <<>>)
        => /\ DOMAIN fin.data = {p \in DOMAIN Stored : RetainedDays(Stored[p]) # <<>>}
           /\ \A p \in DOMAIN fin.data :
                 /\ fin.data[p].daily_data = RetainedDays(Stored[p])
                 /\ fin.data[p].total_hours = SumDays(RetainedDays(Stored[p]), "unit_amount")
                 /\ RetainedDays(Stored[p]) = Stored[p].daily_data
                      => fin.data[p].total_revenue = Stored[p].total_revenue

\* C16: a load whose range holds no stored day of any project returns the
\* stored cache as it is, stored totals included.
C16_EmptyRangeFallsBack ==
    (fin.op = "load" /\ financialsFile.st = "ok"
       /\ \A p \in DOMAIN Stored : RetainedDays(Stored[p]) = <<>>)
        => fin.data = Stored

C16_Witness ==
    /\ fin.op = "load"
    /\ financialsFile.st = "ok"
    /\ \E p \in DOMAIN Stored : Stored[p].total_hours > 0 /\ Stored[p].total_revenue > 0
    /\ \A p \in DOMAIN Stored : RetainedDays(Stored[p]) = <<>>
    /\ fin.data # NoFinancials

\* C18: a recompute is a full one when the last-calculation time is unset or
\* older than the last sync, and an incremental one otherwise.
C18_FullOrIncremental ==
    (fin.op = "update" /\ fin.triggered)
        => LET unsetOrOlder ==
                 \/ fin.preCalc.st = "absent"
                 \/ get_last_calculation_time(fin.preCalc) < get_last_update_time(lastUpdateFile)
           IN /\ unsetOrOlder => fin.mode = "full"
              /\ ~unsetOrOlder => fin.mode = "incremental"

\* C19: the last-calculation time becomes now and the cache the new result
\* when the recompute succeeded; a recompute that raised or found no date
\* column leaves both files as they were.
C19_StampOnlyOnSuccess ==
    (fin.op = "update" /\ fin.triggered)
        => LET succeeded == fin.raised = "none" /\ DateColumnOf(fin.timesheet) # "none"
           IN /\ succeeded
                   => /\ lastCalcFile = set_last_calculation_time(fin.t)
                      /\ financialsFile = save_financials_data(fin.data)
              /\ ~succeeded
                   => /\ lastCalcFile = fin.preCalc
                      /\ financialsFile = fin.preFile

\* a timesheet with lines, none of whose columns is a date column
NoDateColumn(df) == Len(df.rows) > 0 /\ DateColumnOf(df) = "none"

\* what update_financials shows when the range holds no line of any project
NoDataStatus == "No data available"

\* C21: a recompute over a timesheet without any date column ends in an
\* error that the caller shows as an error: not as the "no data in range"
\* outcome and not as a completed calculation (of zeros).
C21_NoDateColumnIsError ==
    (fin.op = "update" /\ fin.triggered /\ NoDateColumn(fin.timesheet))
        => /\ fin.raised # "none"
           /\ fin.status \notin {NoDataStatus, "Calculation complete"}

----------------------------------------------------------------------------
(* Computing a range window by window.  The computation of a window is      *)
(* calculate_all_financials over that window; the merge of the windows'     *)
(* results is the caller's part, which the specification describes: the     *)
(* hours of a date are summed, new dates are appended, total_hours is the   *)
(* sum over the merged days.  The days carry no revenue, so the revenue of  *)
(* the merged aggregate is the sum of the disjoint windows' revenues.       *)

DaysOf(data, p) == IF p \in DOMAIN data THEN data[p].daily_data ELSE <<>>

MergeDays(a, b) ==
    LET both == a \o b
        dates == SortedDates({both[k].date : k \in 1..Len(both)})
    IN [n \in 1..Len(dates) |->
          LET grp == KeepRows(both, {k \in 1..Len(both) : both[k].date = dates[n]}, 1)
          IN [date |-> dates[n],
              unit_amount |-> SumPresent(grp, "unit_amount"),
              employee_name |-> UNION {grp[k].employee_name : k \in 1..Len(grp)},
              task_id |-> UNION {grp[k].task_id : k \in 1..Len(grp)}]]

MergeAggregates(cached, delta) ==
    [p \in DOMAIN cached \cup DOMAIN delta |->
        LET days == MergeDays(DaysOf(cached, p), DaysOf(delta, p))
        IN [total_revenue |-> RevenueOf(cached, p) + RevenueOf(delta, p),
            total_hours |-> SumPresent(days, "unit_amount"),
            daily_data |-> days]]

\* the result for the window [from, to] of the arguments of the last call
Window(from, to) ==
    calculate_all_financials(CalcPortfolio, CalcEmployees, calc_in.timesheet,
                             EmptyFrame, calc_in.job_costs, from, to)

\* the splits of the range: a first window up to m, a second from the day after
Splits ==
    {w \in RangeDates \X RangeDates :
        /\ DayNumber(calc_in.start_date) <= DayNumber(w[1])
        /\ DayNumber(w[2]) = DayNumber(w[1]) + 1
        /\ DayNumber(w[2]) <= DayNumber(calc_in.end_date)}

----------------------------------------------------------------------------
(* The job-rate table: job_costs.json, the DataManager's job_costs and the  *)
(* two tables of the settings tab.  The rows of the tables are JSON         *)
(* records, their fields plain texts.                                       *)

MaxTableRows == 3

\* load_job_costs: the content of the file, {} when there is none
load_job_costs(file) == IF file.st = "absent" THEN <<>> ELSE file.content

\* lines 46-51: the titles seen in the employees (a job_id that is a list
\* gives its second element, any other value itself)
UniqueJobTitles(df_employees) ==
    IF "job_title" \in df_employees.cols
    THEN {df_employees.rows[i]["job_title"].a : i \in 1..Len(df_employees.rows)}
    ELSE IF "job_id" \in df_employees.cols
    THEN {IF df_employees.rows[i]["job_id"].k = "list"
          THEN df_employees.rows[i]["job_id"].b
          ELSE df_employees.rows[i]["job_id"].a : i \in 1..Len(df_employees.rows)}
    ELSE {}

\* process_job_titles: a title that is not empty and not yet a key is added
\* with empty rates
process_job_titles(rates, df_employees) ==
    LET new == {t \in UniqueJobTitles(df_employees) : t # "" /\ t \notin DOMAIN rates}
    IN [t \in DOMAIN rates \cup new |->
          IF t \in DOMAIN rates THEN rates[t] ELSE [cost |-> "", revenue |-> ""]]

\* update_settings_tables, lines 393-404: both tables are cut down to the
\* selected employees and written back to the tables they were read from
FilteredEmployees(rows, selected_employees) ==
    IF selected_employees = {} THEN rows
    ELSE KeepRows(rows, {i \in 1..Len(rows) : rows[i].name \in selected_employees}, 1)

FilteredJobCosts(job_costs_data, filtered_employees) ==
    LET unique_job_titles ==
            {filtered_employees[i].job_title : i \in 1..Len(filtered_employees)} \ {""}
    IN KeepRows(job_costs_data,
                {i \in 1..Len(job_costs_data) :
                    job_costs_data[i].job_title \in unique_job_titles}, 1)

\* save_job_costs_callback, line 416: the dict built from the rows of the
\* table; a later row of the same title replaces an earlier one
JobCostsOfTable(rows) ==
    LET titles == {rows[i].job_title : i \in 1..Len(rows)} \ {""}
    IN [t \in titles |->
          LET i == CHOOSE k \in 1..Len(rows) :
                     /\ rows[k].job_title = t
                     /\ \A j \in 1..Len(rows) : rows[j].job_title = t => j <= k
          IN [cost |-> rows[i].cost, revenue |-> rows[i].revenue]]

\* save_job_costs(job_costs): the file is replaced by the dict it is given,
\* as DataManager.save_job_costs replaces it by the manager's dict
save_job_costs(rates) == FileOf(rates)

BlankRow == [job_title |-> "", cost |-> "", revenue |-> ""]

PersistedRates ==
    [Engineer |-> [cost |-> "100", revenue |-> "800"],
     Analyst |-> [cost |-> "", revenue |-> "100"]]

RowsOfRates ==
    <<[job_title |-> "Engineer", cost |-> "100", revenue |-> "800"],
      [job_title |-> "Analyst", cost |-> "", revenue |-> "100"]>>

SettingsEmployees ==
    <<[name |-> "Bob", job_title |-> "Engineer"],
      [name |-> "Eve", job_title |-> "Analyst"],
      [name |-> "Dan", job_title |-> "Intern"]>>

\* the employees a DataManager can load: with a job_title column, with the
\* job_id lists of the source, with neither
JobFrames ==
    {DataFrame(<<[name |-> S("Bob"), job_title |-> S("Engineer")],
                 [name |-> S("Dan"), job_title |-> S("Intern")]>>),
     DataFrame(<<[name |-> S("Eve"), job_id |-> L("6", "Analyst")],
                 [name |-> S("Kim"), job_id |-> L("8", "Designer")]>>),
     DataFrame(<<[name |-> S("Bob")]>>)}

\* the settings tab as first shown: the persisted rates and all employees
InitJobs ==
    /\ SyncIdle /\ MergeIdle /\ CalcIdle /\ FinIdle
    /\ jobCostsFile = FileOf(PersistedRates)
    /\ dm_job_costs = <<>>
    /\ table_data = RowsOfRates
    /\ employees_table = SettingsEmployees
    /\ jop = "start"
    /\ dm = <<>>

\* load_all_data, lines 38 and 41
LoadJobCosts ==
    \E df \in JobFrames :
        /\ dm_job_costs' = process_job_titles(load_job_costs(jobCostsFile), df)
        /\ jop' = "process"
        /\ UNCHANGED <<jobCostsFile, table_data, employees_table>>
        /\ UNCHANGED <<syncVars, mergeVars, calcVars, finVars, dm>>

\* DataManager.save_job_costs, of a manager that has loaded
SaveManagerJobCosts ==
    /\ dm_job_costs # <<>>
    /\ jobCostsFile' = FileOf(dm_job_costs)
    /\ jop' = "save_manager"
    /\ UNCHANGED <<dm_job_costs, table_data, employees_table>>
    /\ UNCHANGED <<syncVars, mergeVars, calcVars, finVars, dm>>

UpdateSettingsTables ==
    \E selected_employees \in SUBSET {"Bob", "Eve", "Dan"} :
        LET filtered_employees == FilteredEmployees(employees_table, selected_employees)
        IN /\ table_data' = FilteredJobCosts(table_data, filtered_employees)
           /\ employees_table' = filtered_employees
           /\ jop' = "filter"
           /\ UNCHANGED <<jobCostsFile, dm_job_costs>>
           /\ UNCHANGED <<syncVars, mergeVars, calcVars, finVars, dm>>

AddJobTitle ==
    /\ Len(table_data) < MaxTableRows
    /\ table_data' = table_data \o <<BlankRow>>
    /\ jop' = "add"
    /\ UNCHANGED <<jobCostsFile, dm_job_costs, employees_table>>
    /\ UNCHANGED <<syncVars, mergeVars, calcVars, finVars, dm>>

SaveJobCostsCallback ==
    /\ jobCostsFile' = save_job_costs(JobCostsOfTable(table_data))
    /\ jop' = "save"
    /\ UNCHANGED <<dm_job_costs, table_data, employees_table>>
    /\ UNCHANGED <<syncVars, mergeVars, calcVars, finVars, dm>>

NextJobs ==
    \/ LoadJobCosts \/ SaveManagerJobCosts \/ UpdateSettingsTables
    \/ AddJobTitle \/ SaveJobCostsCallback

SpecJobs == InitJobs /\ [][NextJobs]_vars

\* C17: no step removes a job title from the persisted table, and the
\* discovery of job titles keeps every persisted entry as it is.
C17_RatesNeverRemoved ==
    [][/\ DOMAIN jobCostsFile.content \subseteq DOMAIN jobCostsFile'.content
       /\ jop' = "process"
            => \A t \in DOMAIN jobCostsFile.content :
                  /\ t \in DOMAIN dm_job_costs'
                  /\ dm_job_costs'[t] = jobCostsFile.content[t]]_vars

----------------------------------------------------------------------------
(* The revenue functions of callbacks/project.py on their own: the lines,   *)
(* the employees and the job-rate table are drawn from bounded sets         *)

MaxEntries == 3

\* Bob has a job_title and the text of a job_id list that names another
\* title, Eve a job_title only, Dan a job_id that is a plain text
TitledEmployees ==
    DataFrame(<<[name |-> S("Bob"), job_title |-> S("Lead"),
                 job_id |-> StrList("5", "Engineer")],
                [name |-> S("Eve"), job_title |-> S("Analyst")],
                [name |-> S("Dan"), job_id |-> S("Intern")]>>)

\* employees without any job field
BareEmployees == DataFrame(<<[name |-> S("Bob")], [name |-> S("Eve")]>>)

RevEmployees == {CalcEmployees, TitledEmployees, BareEmployees}

\* rate tables: entries with a number, without a revenue, with an empty
\* revenue and with a revenue that is no number; some titles have no entry
RevJobCosts ==
    JobCostTables
    \cup {[Engineer |-> [cost |-> "100"],
           Lead |-> [cost |-> "", revenue |-> "100"],
           Analyst |-> [cost |-> "", revenue |-> "n/a"]]}

RevLines ==
    <<[employee_name |-> S("Bob"), unit_amount |-> S("8")],
      [employee_name |-> S("Bob"), unit_amount |-> S("4")],
      [employee_name |-> S("Eve"), unit_amount |-> S("8")],
      [employee_name |-> S("Eve"), unit_amount |-> S("4")],
      [employee_name |-> S("Dan"), unit_amount |-> S("8")],
      [employee_name |-> S("Ghost"), unit_amount |-> S("8")]>>

LinesUpTo(n) ==
    {KeepRows(RevLines, I, 1) :
        I \in {J \in SUBSET (1..Len(RevLines)) : Cardinality(J) <= n}}

InitRev ==
    /\ SyncIdle /\ MergeIdle /\ FinIdle /\ JobIdle
    /\ calc_in = <<>> /\ calc_out = <<>> /\ cpc = "idle"
    /\ rev_in \in [lines : LinesUpTo(MaxEntries), employees : RevEmployees,
                   job_costs : RevJobCosts]
    /\ rev_out = <<>>
    /\ rpc = "ready"

\* update_project's call of calculate_project_revenue (lines 38 and 51)
ProjectRevenue ==
    /\ rpc = "ready"
    /\ rev_out' = [op |-> "project", raised |-> "none",
                   value |-> calculate_project_revenue(rev_in.lines, rev_in.employees,
                                                       rev_in.job_costs)]
    /\ rpc' = "done"
    /\ UNCHANGED <<rev_in, calc_in, calc_out, cpc, syncVars, mergeVars, finVars, jobVars>>

\* create_revenue_chart's revenue column
EntryRevenue ==
    /\ rpc = "ready"
    /\ rev_out' = [op |-> "entries"]
                  @@ EntryRevenues(rev_in.lines, rev_in.employees, rev_in.job_costs)
    /\ rpc' = "done"
    /\ UNCHANGED <<rev_in, calc_in, calc_out, cpc, syncVars, mergeVars, finVars, jobVars>>

\* extract_job_title of every employee
ExtractJobTitles ==
    /\ rpc = "ready"
    /\ rev_out' = [op |-> "titles",
                   titles |-> [i \in 1..Len(rev_in.employees.rows) |->
                                  extract_job_title(rev_in.employees, i)]]
    /\ rpc' = "done"
    /\ UNCHANGED <<rev_in, calc_in, calc_out, cpc, syncVars, mergeVars, finVars, jobVars>>

NextRev == ProjectRevenue \/ EntryRevenue \/ ExtractJobTitles

SpecRev == InitRev /\ [][NextRev]_vars

----------------------------------------------------------------------------
(* Properties of the revenue functions, in every state of SpecRev *)

\* the line names an employee of the table
Matched(line) == EmployeeMatches(rev_in.employees, line["employee_name"]) # {}

\* the job title the code finds for the employee of a matched line
TitleOfLine(line) ==
    LET found == EmployeeMatches(rev_in.employees, line["employee_name"])
    IN extract_job_title(rev_in.employees, CHOOSE i \in found : \A j \in found : i <= j)

\* the title has no entry, or its entry has no revenue, an empty one or one
\* that is no number
NoValidRate(job_costs, title) ==
    \/ title \notin DOMAIN job_costs
    \/ "revenue" \notin DOMAIN job_costs[title]
    \/ job_costs[title]["revenue"] \notin DOMAIN RateValue

\* C22: lines whose employees' job titles have no valid rate are priced at
\* rate 0 without an error, by calculate_project_revenue and by
\* calculate_entry_revenue alike.
C22_InvalidRateIsZero ==
    (/\ rpc = "done" /\ rev_out.op \in {"project", "entries"}
     /\ \A i \in 1..Len(rev_in.lines) :
           Matched(rev_in.lines[i])
              => NoValidRate(rev_in.job_costs, TitleOfLine(rev_in.lines[i])))
        => /\ rev_out.raised = "none"
           /\ rev_out.op = "project" => rev_out.value = 0
           /\ rev_out.op = "entries"
                => \A i \in 1..Len(rev_out.values) : rev_out.values[i] = 0

\* the title the employee record stands for: its job_title when it has one,
\* else the second element of its job_id composite, else "Unknown"
StatedJobTitle(df, i) ==
    IF "job_title" \in df.cols /\ ~IsNa(df.rows[i]["job_title"])
    THEN df.rows[i]["job_title"].a
    ELSE IF "job_id" \in df.cols /\ df.rows[i]["job_id"].k \in {"list", "str"}
    THEN df.rows[i]["job_id"].b
    ELSE "Unknown"

\* C23: extract_job_title gives the direct job_title when the employee has
\* one, otherwise the title of a two-element job_id composite, otherwise
\* "Unknown".
C23_JobTitlePrecedence ==
    (rpc = "done" /\ rev_out.op = "titles")
        => \A i \in 1..Len(rev_in.employees.rows) :
              rev_out.titles[i] = StatedJobTitle(rev_in.employees, i)

\* the daily rate of a matched line, in currency units
DailyRateOf(line) == DailyRevenue(JobCostGet(rev_in.job_costs, TitleOfLine(line)))

\* (unit_amount / 8) * daily_rate, as a number of eighths
Contribution(line) ==
    IF Matched(line) THEN NumberOf(line["unit_amount"]) * DailyRateOf(line) ELSE 0

RECURSIVE SumContributions(_)
SumContributions(lines) ==
    IF lines = <<>> THEN 0 ELSE Contribution(Head(lines)) + SumContributions(Tail(lines))

\* C24: the revenue of a set of lines is the sum of (unit_amount / 8) *
\* daily_rate over its matched lines; a single line of 8 hours at a daily
\* rate of 100 gives exactly 100, one of 4 hours exactly 50.
C24_HoursToDays ==
    (rpc = "done" /\ rev_out.op = "project")
        => /\ rev_out.value = SumContributions(rev_in.lines)
           /\ (/\ Len(rev_in.lines) = 1 /\ Matched(rev_in.lines[1])
               /\ DailyRateOf(rev_in.lines[1]) = 100)
                 => /\ rev_in.lines[1]["unit_amount"] = S("8")
                         => rev_out.value = 100 * HoursPerDay
                    /\ rev_in.lines[1]["unit_amount"] = S("4")
                         => rev_out.value = 50 * HoursPerDay

C24_Witness ==
    /\ rpc = "done" /\ rev_out.op = "project"
    /\ Len(rev_in.lines) = 1 /\ Matched(rev_in.lines[1])
    /\ DailyRateOf(rev_in.lines[1]) = 100
    /\ rev_in.lines[1]["unit_amount"] = S("4")
    /\ rev_out.value = 50 * HoursPerDay

RECURSIVE SumSeq(_)
SumSeq(q) == IF q = <<>> THEN 0 ELSE Head(q) + SumSeq(Tail(q))

\* C27: the revenue column that calculate_entry_revenue fills adds up to
\* what calculate_project_revenue returns for the same lines, employees and
\* rate table.
C27_EntryAgreesWithProject ==
    (rpc = "done" /\ rev_out.op = "entries")
        => /\ rev_out.raised = "none"
           /\ SumSeq(rev_out.values)
                = calculate_project_revenue(rev_in.lines, rev_in.employees,
                                            rev_in.job_costs)

----------------------------------------------------------------------------
(* DataManager.load_all_data: the construction of a DataManager             *)

\* line 37: the snapshot is unpacked into five names
ManagerFrames == 5

\* lines 36-41, given what the call of load_or_fetch_data in line 36 did:
\* the manager is the error that ended the construction, or the fields as
\* they were left.  A file that does not parse ends json.load with an error.
ManagerAfter(r, jf, ff) ==
    LET data == r.call.data
        unset == [raised |-> "none", frames |-> <<>>, last_update |-> NoCall.asOf,
                  job_costs |-> <<>>, financials_data |-> NoFinancials]
        got == [unset EXCEPT !.frames = data, !.last_update = r.call.asOf]
    IN [dataFile |-> r.dataFile, lastUpdateFile |-> r.lastUpdateFile, call |-> r.call,
        dm |-> IF r.call.raised # "none" THEN [unset EXCEPT !.raised = r.call.raised]
               ELSE IF Len(data) # ManagerFrames
               THEN [unset EXCEPT !.raised = "ValueError", !.last_update = r.call.asOf]
               ELSE IF jf.st = "corrupt" THEN [got EXCEPT !.raised = "JSONDecodeError"]
               ELSE IF ff.st = "corrupt"
               THEN [got EXCEPT !.raised = "JSONDecodeError", !.job_costs = load_job_costs(jf)]
               ELSE [got EXCEPT !.job_costs = process_job_titles(load_job_costs(jf), data[2]),
                                !.financials_data = load_financials_data(ff, None, None)]]

\* load_all_data at time now: the two cache files after it, the call of
\* load_or_fetch_data it made (one call, with force = False) and the manager
load_all_data(df, lf, jf, ff, now, v, failed, procErr, dataW, tsW) ==
    CHOOSE m \in {ManagerAfter(r, jf, ff) :
                    r \in {load_or_fetch_data(df, lf, now, FALSE, v, failed, procErr,
                                              dataW, tsW)}} : TRUE

\* the files a start of the program can find: each is absent, damaged, or
\* as an earlier run wrote it at time 0
GoodSnapshot == save_cached_data(AbsentFile, ProcessedFrames(1, {}), "ok").file
GoodTimestamp == set_last_update_time(AbsentFile, 0, "ok").file
StoredFinancials ==
    save_financials_data(Recomputed[{1, 2, 3}, Ts("2024-01-01"), Ts("2024-01-02")].data)

InitLoad ==
    /\ dataFile \in {AbsentFile, CorruptFile, GoodSnapshot}
    /\ lastUpdateFile \in {AbsentFile, CorruptFile, GoodTimestamp}
    /\ jobCostsFile \in {AbsentFile, CorruptFile, FileOf(PersistedRates)}
    /\ financialsFile \in {AbsentFile, CorruptFile, StoredFinancials}
    /\ lastCalcFile \in {AbsentFile, CorruptFile, set_last_calculation_time(0)}
    /\ clock = 0
    /\ last = NoCall
    /\ prev = Summary(NoCall)
    /\ as_of_seen = NoCall.asOf
    /\ shown = <<>>
    /\ fin = [op |-> "none"]
    /\ MergeIdle /\ CalcIdle
    /\ dm_job_costs = <<>> /\ dm = <<>>
    /\ table_data = <<>> /\ employees_table = <<>> /\ jop = "idle"

\* DataManager(): __post_init__ runs load_all_data, once per start
LoadAllData ==
    \E f \in FetchCases, w \in WriteCases :
        /\ jop = "idle"
        /\ Branch(FALSE) \in {"load_error", "cached"}
              => (f = [v |-> 1, failed |-> {}, procErr |-> FALSE] /\ w = <<"ok", "ok">>)
        /\ \E r \in {load_all_data(dataFile, lastUpdateFile, jobCostsFile, financialsFile,
                                   clock, f.v, f.failed, f.procErr, w[1], w[2])} :
              /\ dataFile' = r.dataFile
              /\ lastUpdateFile' = r.lastUpdateFile
              /\ last' = r.call
              /\ prev' = Summary(last)
              /\ as_of_seen' = SeenAfter(as_of_seen, r.call)
              /\ dm' = r.dm
              /\ dm_job_costs' = r.dm.job_costs
        /\ jop' = "load_all"
        /\ UNCHANGED <<clock, shown, jobCostsFile, table_data, employees_table>>
        /\ UNCHANGED <<mergeVars, calcVars, finVars>>

NextLoad == LoadAllData \/ Pass

SpecLoad == InitLoad /\ [][NextLoad]_vars

\* the persisted files that the last start found absent or damaged
DamagedFiles ==
    {n \in {"snapshot", "sync", "rates", "aggregates", "calculation"} :
        (CASE n = "snapshot" -> last.preData.st
           [] n = "sync" -> last.preTs.st
           [] n = "rates" -> jobCostsFile.st
           [] n = "aggregates" -> financialsFile.st
           [] n = "calculation" -> lastCalcFile.st) # "ok"}

\* C25: when one persisted file is absent or damaged, load_all_data still
\* ends without an error and the manager holds what the other files hold:
\* every persisted job rate and the aggregates of every persisted project.
C25_FilesLoadIndependently ==
    (jop = "load_all" /\ Cardinality(DamagedFiles) = 1)
        => /\ dm.raised = "none"
           /\ jobCostsFile.st = "ok"
                => \A t \in DOMAIN jobCostsFile.content :
                      /\ t \in DOMAIN dm.job_costs
                      /\ dm.job_costs[t] = jobCostsFile.content[t]
           /\ financialsFile.st = "ok"
                => DOMAIN dm.financials_data = DOMAIN financialsFile.content

----------------------------------------------------------------------------
(* callbacks/callbacks.py: refresh_dashboard_data, the callback behind the  *)
(* data store and the "last update" text                                    *)

\* lines 42-50, given what the call of load_or_fetch_data did: an error of
\* the call leaves the callback; `if data:` is the truth value of a list
RefreshAfter(r, triggered) ==
    LET out == [triggered |-> triggered, raised |-> "none", data |-> <<>>,
                status |-> "none", last_updated |-> NoCall.asOf]
    IN [dataFile |-> r.dataFile, lastUpdateFile |-> r.lastUpdateFile, call |-> r.call,
        shown |-> IF r.call.raised # "none" THEN [out EXCEPT !.raised = r.call.raised]
                  ELSE IF Len(r.call.data) > 0
                  THEN [out EXCEPT !.data = serialize_dataframes(r.call.data),
                                   !.status = "Last updated",
                                   !.last_updated = r.call.asOf]
                  ELSE [out EXCEPT !.data = serialize_dataframes([i \in 1..6 |-> EmptyFrame]),
                                   !.status = "Failed to update data"]]

\* refresh_dashboard_data(n_clicks, current_data) at time now; triggered
\* tells whether the button was clicked (lines 36-41: force = triggered)
refresh_dashboard_data(df, lf, now, triggered, v, failed, procErr, dataW, tsW) ==
    CHOOSE m \in {RefreshAfter(r, triggered) :
                    r \in {load_or_fetch_data(df, lf, now, triggered, v, failed, procErr,
                                              dataW, tsW)}} : TRUE

RefreshDashboardData(triggered, v, failed, procErr, dataW, tsW) ==
    /\ \E r \in {refresh_dashboard_data(dataFile, lastUpdateFile, clock, triggered,
                                        v, failed, procErr, dataW, tsW)} :
          /\ dataFile' = r.dataFile
          /\ lastUpdateFile' = r.lastUpdateFile
          /\ last' = r.call
          /\ prev' = Summary(last)
          /\ as_of_seen' = SeenAfter(as_of_seen, r.call)
          /\ shown' = r.shown
    /\ UNCHANGED <<clock, mergeVars, calcVars, finVars, jobVars>>

\* the page is loaded or the button clicked, and the call reaches no fetch
RefreshLocal ==
    \E triggered \in BOOLEAN :
        /\ Branch(triggered) \in {"load_error", "cached"}
        /\ RefreshDashboardData(triggered, 1, {}, FALSE, "ok", "ok")

\* the same with a fetch: the remote source and the disk do what they do
RefreshFetch ==
    \E triggered \in BOOLEAN, f \in FetchCases, w \in WriteCases :
        /\ Branch(triggered) \in {"full", "incremental"}
        /\ RefreshDashboardData(triggered, f.v, f.failed, f.procErr, w[1], w[2])

NextRefresh == RefreshLocal \/ RefreshFetch \/ Pass

SpecRefresh == InitSync /\ [][NextRefresh]_vars

\* the call reached the remote source and the source failed: the processing
\* raised, or the call for some record type raised
RemoteFetchFailed(call) ==
    /\ Len(call.fetches) = 1 /\ call.raised # "TypeError"
    /\ (call.procErr \/ call.remoteFailed # {})

\* C26: when the remote fetch of a refresh fails, refresh_dashboard_data
\* does not raise and returns the last good snapshot (six empty collections
\* when there is none) with the status "Failed to update data", not "Last
\* updated".
C26_FailedRefreshIsReported ==
    (shown # <<>> /\ RemoteFetchFailed(last))
        => /\ shown.raised = "none"
           /\ shown.status = "Failed to update data"
           /\ shown.data = (IF last.preData.st = "ok" THEN last.preData.content
                            ELSE serialize_dataframes([i \in 1..6 |-> EmptyFrame]))

----------------------------------------------------------------------------
(* The order of the two writes of load_or_fetch_data *)

\* C29: the snapshot is persisted before the sync timestamp, and the
\* timestamp written is the instant the call read before it fetched.  In
\* every step: where a timestamp is persisted a snapshot is persisted too; a
\* step that writes the timestamp T is a call that read the clock at T,
\* fetched, and saved the result of that fetch as the snapshot; and a step
\* that replaces the snapshot under a persisted timestamp T is a call that
\* started at or after T and saved its snapshot whole.
C29_SnapshotBeforeStamp ==
    [][/\ lastUpdateFile'.st = "ok" => dataFile'.st = "ok"
       /\ (lastUpdateFile' # lastUpdateFile /\ lastUpdateFile'.st = "ok")
             => /\ get_last_update_time(lastUpdateFile') = last'.t
                /\ last'.t = clock
                /\ Len(last'.fetches) = 1
                /\ last'.saved = "ok"
                /\ dataFile' = FileOf(serialize_dataframes(last'.data))
       /\ (lastUpdateFile.st = "ok" /\ dataFile' # dataFile)
             => /\ last'.saved = "ok"
                /\ dataFile'.st = "ok"
                /\ last'.t >= get_last_update_time(lastUpdateFile)]_vars

\* a call found the snapshot that an earlier call saved before its write of
\* the timestamp failed, fetched again at a later time and persisted both
C29_Witness ==
    /\ prev.raised = "OSError"
    /\ last.preData.st = "ok" /\ last.preTs.st = "absent"
    /\ last.t > 0
    /\ last.saved = "ok" /\ last.stamped = "ok"
    /\ lastUpdateFile = FileOf(Isoformat(last.t))
    /\ dataFile = FileOf(serialize_dataframes(last.data))

----------------------------------------------------------------------------
(* The sync timestamp over a sequence of calls *)

\* C30: over the calls that find a cached snapshot, whatever their force
\* flags and whatever the remote source and the disk do, the as_of a call
\* returns is never earlier than the as_of an earlier such call returned,
\* and a persisted sync timestamp is never replaced by an earlier one.
C30_TimestampNeverDecreases ==
    [][/\ (last'.called /\ last'.preData.st = "ok" /\ last'.raised = "none"
              /\ <<last, prev>>' # <<last, prev>>)
             => last'.asOf >= as_of_seen
       /\ (dataFile.st = "ok" /\ lastUpdateFile.st = "ok" /\ lastUpdateFile'.st = "ok")
             => get_last_update_time(lastUpdateFile')
                   >= get_last_update_time(lastUpdateFile)]_vars

\* a call found a snapshot without timestamp, fetched and returned its own
\* time; a later call found both files and returned the persisted timestamp
C30_Witness ==
    /\ prev.called /\ prev.preData = "ok" /\ prev.raised = "none" /\ prev.nfetch = 1
    /\ last.called /\ last.branch = "cached" /\ last.t > prev.t
    /\ last.asOf = prev.t /\ last.asOf > 0
    /\ as_of_seen = last.asOf

====
